---- MODULE Spec2Model ----
(***************************************************************************)
(* Model of the streaming conversational turn pipeline of the voice        *)
(* backend: the text chunker (_pickTtsChunk), the per-turn synthesis queue *)
(* and orchestrator (chatStream), the one-time delivery token store        *)
(* (ttsController) and the audio merger (audioMergeService).               *)
(*                                                                         *)
(* Text is a sequence of one-character strings.  JavaScript indices are    *)
(* 0-based; every operator below that takes or returns an index uses the   *)
(* JavaScript convention, and Slice converts to TLA+ positions.            *)
(***************************************************************************)
EXTENDS Integers, Sequences, FiniteSets, TLC

\* null / absent value of a numeric field
Null == 0 - 1

------------------------------------------------------------------------------
(* Strings *)

\* characters matched by [.!?]
Punct == {".", "!", "?"}

\* characters matched by \s (and stripped by trim): space and newline
White == {" ", "\n"}

Rep(c, n) == [i \in 1..n |-> c]

MinOf(S) == CHOOSE x \in S : \A y \in S : x <= y

MaxOf(S) == CHOOSE x \in S : \A y \in S : x >= y

\* String.prototype.slice(from, to) for 0 <= from <= to
Slice(s, from, to) == SubSeq(s, from + 1, IF to > Len(s) THEN Len(s) ELSE to)

\* positions (1-based) of the characters that are not whitespace
NonBlank(s) == {i \in 1..Len(s) : s[i] \notin White}

\* String.prototype.trim
Trim(s) == IF NonBlank(s) = {} THEN <<>> ELSE SubSeq(s, MinOf(NonBlank(s)), MaxOf(NonBlank(s)))

\* String.prototype.lastIndexOf(c, from): the largest index <= from holding c, or -1
LastIndexOf(s, c, from) ==
  LET hits == {i \in 0..(Len(s) - 1) : i <= from /\ s[i + 1] = c}
  IN  IF hits = {} THEN 0 - 1 ELSE MaxOf(hits)

\* number of consecutive characters of class S starting at index i
RunLen(s, i, S) ==
  MaxOf({n \in 0..(Len(s) - i) : \A k \in 1..n : s[i + k] \in S})

\* length of the match of /[.!?]\s+|\n+/ that starts at index i (0: no match there)
MatchAt(s, i) ==
  IF i >= Len(s) THEN 0
  ELSE IF s[i + 1] \in Punct THEN
         (IF RunLen(s, i + 1, White) > 0 THEN 1 + RunLen(s, i + 1, White) ELSE 0)
  ELSE IF s[i + 1] = "\n" THEN RunLen(s, i, {"\n"})
  ELSE 0

\* boundaryRe.exec(text) with lastIndex = from: index of the leftmost match, or -1
NextMatch(s, from) ==
  LET starts == {i \in from..(Len(s) - 1) : MatchAt(s, i) > 0}
  IN  IF starts = {} THEN 0 - 1 ELSE MinOf(starts)

------------------------------------------------------------------------------
(* Text chunker *)

MinLen == 22

MaxLen == 160

\* a variant of the forced cut that takes any space it finds
ForceCutAnySpace(text, minLen, maxLen) ==
  LET cut == LastIndexOf(text, " ", maxLen)
  IN  IF cut >= 0 THEN cut ELSE maxLen

\* a variant of the boundary scan that wants the boundary to end beyond minLen
RECURSIVE BoundaryScanBeyond(_, _, _, _)
BoundaryScanBeyond(text, from, minLen, maxLen) ==
  LET i == NextMatch(text, from)
      endIdx == i + MatchAt(text, i)
  IN  IF i < 0 THEN 0 - 1
      ELSE IF endIdx > minLen THEN endIdx
      ELSE IF endIdx > maxLen THEN 0 - 1
      ELSE BoundaryScanBeyond(text, endIdx, minLen, maxLen)

\* the boundary scan of _pickTtsChunk: end index of the first match whose end
\* is at or beyond minLen, or -1 when the loop ends without one
RECURSIVE BoundaryScan(_, _, _, _)
BoundaryScan(text, from, minLen, maxLen) ==
  LET i == NextMatch(text, from)
      endIdx == i + MatchAt(text, i)
  IN  IF i < 0 THEN 0 - 1
      ELSE IF endIdx >= minLen THEN endIdx
      ELSE IF endIdx > maxLen THEN 0 - 1
      ELSE BoundaryScan(text, endIdx, minLen, maxLen)

\* the forced cut of _pickTtsChunk when the text has reached maxLen
ForceCut(text, minLen, maxLen) ==
  LET cut == LastIndexOf(text, " ", maxLen)
  IN  IF cut > minLen THEN cut ELSE maxLen

\* _pickTtsChunk: has = FALSE stands for chunk: null
PickTtsChunk(pending, minLen, maxLen) ==
  LET text == pending
      b == BoundaryScan(text, 0, minLen, maxLen)
      none == [has |-> FALSE, chunk |-> <<>>, rest |-> text]
      CutAt(e) == [has |-> TRUE, chunk |-> Slice(text, 0, e), rest |-> Slice(text, e, Len(text))]
  IN  IF Len(Trim(text)) < minLen THEN none
      ELSE IF b >= 0 THEN CutAt(b)
      ELSE IF Len(text) >= maxLen THEN CutAt(ForceCut(text, minLen, maxLen))
      ELSE none

------------------------------------------------------------------------------
(* chatStream: state of one streaming turn *)

VARIABLES
  pc,                   \* position of the chatStream coroutine
  now,                  \* Date.now()
  aborted,              \* abortController.signal.aborted
  abortedAt,            \* position of the turn when the close event fired
  events,               \* objects passed to write(), in order; "end" marks res.end()
  tools,                \* tools.length > 0: the agent has an enabled end_call function
  conversation,         \* the in-memory Conversation document of the turn
  dbConversation,       \* the stored Conversation document
  messagesForOpenAI,    \* the message list handed to the generation provider
  callRecord,           \* the in-memory CallHistory document (<<>>: null)
  dbCallRecord,         \* the stored CallHistory document
  fullText, pendingSpeak,
  ttsQueue, ttsProcessing, ttsIndex, ttsResolve, audioSegmentIds,
  inflight,             \* textToSpeech calls awaiting their result
  shifted,              \* number of chunks taken from ttsQueue so far
  enqueued,             \* every chunk pushed to ttsQueue so far, in order
  idleResolved,         \* the promise returned by ttsIdle() is resolved
  firstTokenAt, firstTtsAt, ttsDoneAt, llmDoneAt, firstTtsChunkQueuedAt,
  shouldEndCall, finalAiResponse, tokensUsed,
  nDeltas,              \* deltas delivered so far
  nextFileId            \* next identifier the audio store hands out

\* ttsController
VARIABLES
  ttsTokenStore,        \* token -> item, the items holding params and expiresAt
  tokNow,               \* Date.now()
  minted,               \* payload each minted token was created with
  mintedAt,             \* Date.now() when each token was minted
  tokReqs,              \* fetches awaiting the stream of streamTextToSpeech
  tokLog,               \* what each fetch did, in order
  nextRid               \* next request number

tokVars == <<ttsTokenStore, tokNow, minted, mintedAt, tokReqs, tokLog, nextRid>>

\* audioMergeService
VARIABLES
  bucket,               \* the GridFS audio bucket: file id -> file
  mpc,                  \* position of mergeConversationAudio
  audioFileIds,         \* its argument
  mIdx,                 \* ids the download loop has been through
  audioBuffers,         \* buffers downloaded so far
  skipped,              \* positions of audioFileIds whose download failed
  mergedFileId          \* the id it returns (Null: none)

mergeVars == <<bucket, mpc, audioFileIds, mIdx, audioBuffers, skipped, mergedFileId>>

queueVars == <<ttsQueue, ttsProcessing, ttsIndex, ttsResolve, audioSegmentIds,
               inflight, shifted, enqueued, idleResolved>>

timeVars == <<firstTokenAt, firstTtsAt, ttsDoneAt, llmDoneAt, firstTtsChunkQueuedAt>>

textVars == <<fullText, pendingSpeak, nDeltas>>

dbVars == <<conversation, dbConversation, messagesForOpenAI, callRecord, dbCallRecord>>

resultVars == <<shouldEndCall, finalAiResponse, tokensUsed>>

turnVars == <<pc, now, aborted, abortedAt, events, tools, dbVars, textVars, queueVars, timeVars,
              resultVars, nextFileId>>

\* endConversation
VARIABLES
  epc,                  \* position of endConversation
  eRecord,              \* its in-memory CallHistory document (<<>>: null)
  eStatus,              \* the HTTP status it answered with (Null: none yet)
  dIdx                  \* ids deleteTemporaryAudioSegments has been through

endVars == <<epc, eRecord, eStatus, dIdx>>

\* prefetchDraft
VARIABLES
  dpc,                  \* position of prefetchDraft
  dEvents,              \* what it wrote to the response, in order
  dMessages,            \* its messagesForOpenAI
  dAborted,             \* abortController.signal.aborted
  dFirstTokenAt,        \* firstTokenAt
  dNow,                 \* Date.now()
  dDeltas               \* deltas the provider has sent

draftVars == <<dpc, dEvents, dMessages, dAborted, dFirstTokenAt, dNow, dDeltas>>

\* the turns of one conversation
VARIABLES
  lLog                  \* the start of the conversation and its turns, in order

langVars == <<lLog>>

\* cleanupExpiredAudio
VARIABLES
  spc,                  \* position of cleanupExpiredAudio
  sNow,                 \* Date.now()
  sAt,                  \* now of the running or last sweep
  expiredFiles,         \* ids its query returned
  sIdx,                 \* files its loop has been through
  sFailed,              \* ids whose delete rejected in the running or last sweep
  sDeleted,             \* what the sweeps deleted: id, expiresAt, now of the sweep
  sSweeps               \* sweeps started

sweepVars == <<spc, sNow, sAt, expiredFiles, sIdx, sFailed, sDeleted, sSweeps>>

\* _pickTtsChunk applied to a growing buffer
VARIABLES
  pkPending,            \* the buffer: pendingSpeak
  pkText,               \* all the text appended to the buffer
  pkChunks,             \* the chunks taken from the buffer, in order
  pkInput,              \* argument of the last call of _pickTtsChunk
  pkResult,             \* what the last call returned
  pkGrown               \* pieces appended

pickVars == <<pkPending, pkText, pkChunks, pkInput, pkResult, pkGrown>>

\* call records under overlapping requests: chat, chatStream, endConversation
VARIABLES
  cNow,                 \* Date.now()
  cConv,                \* the stored conversation: its messages and audioSegments
  cRecord,              \* the stored CallHistory document
  cBucket,              \* the GridFS audio bucket: file id -> file
  cReq,                 \* the requests: kind, position, documents in memory
  cLog,                 \* every write of the stored call record: who, before, after
  cNextId               \* next identifier the audio store hands out

callVars == <<cNow, cConv, cRecord, cBucket, cReq, cLog, cNextId>>

\* workerSpawner
VARIABLES
  activeWorkers,        \* room name -> the worker recorded for it (Null: no entry)
  workers,              \* every process spawned so far, in order: room, running, killed
  stopping              \* the stopWorker calls in their two-second wait: room, worker

workerVars == <<activeWorkers, workers, stopping>>

\* what the steps of each handler leave alone
notTurnVars == <<tokVars, mergeVars, endVars, draftVars, langVars, sweepVars, pickVars, callVars, workerVars>>

notTokVars == <<turnVars, mergeVars, endVars, draftVars, langVars, sweepVars, pickVars, callVars, workerVars>>

notMergeVars == <<turnVars, tokVars, endVars, draftVars, langVars, sweepVars, pickVars, callVars, workerVars>>

notDraftVars == <<turnVars, tokVars, mergeVars, endVars, langVars, sweepVars, pickVars, callVars, workerVars>>

\* time budget of the forced early chunk (ms since the first token)
ForceBudgetMs == 650

\* least number of non-blank buffered characters for a forced chunk
ForceMinChars == 18

\* cap of a forced chunk
ForceMaxLen == 120

\* a forced chunk is cut at a space only beyond this index
ForceMinCut == 10

\* the clock advances in steps of the forced-chunk budget
TickMs == ForceBudgetMs

\* bounds of the model
MaxTicks == 1

MaxDeltas == 2

\* deltas the generation provider may send
Sentence == Rep("a", 22) \o <<".", " ">>

Words == Rep("a", 9) \o <<" ">> \o Rep("a", 8)

Deltas == {Sentence, Words, <<"\n">>}

\* tool calls the provider may report
ToolCalls == {<<>>, <<"end_call">>, <<"lookup">>}

\* errors the generation call may throw: status, code and retry-after headers
GenErrors ==
  { [status |-> 429, code |-> "rate_limit_exceeded", retryAfterMsHdr |-> 1500, retryAfterHdr |-> Null],
    [status |-> 429, code |-> "none", retryAfterMsHdr |-> Null, retryAfterHdr |-> 2],
    [status |-> 0, code |-> "rate_limit_exceeded", retryAfterMsHdr |-> Null, retryAfterHdr |-> Null],
    [status |-> 500, code |-> "none", retryAfterMsHdr |-> Null, retryAfterHdr |-> Null] }

FallbackGoodbye == <<"Goodbye! Have a great day.">>

FallbackRepeat == <<"Sorry, I didn't catch that. Could you repeat?">>

Ev(type) == [type |-> type, index |-> Null, pos |-> Null, id |-> Null, ms |-> Null,
             flag |-> FALSE, text |-> <<>>]

\* write(obj)
Write(log, ev) == Append(log, ev)

\* res.end()
End(log) == Append(log, Ev("end"))

\* the segment the conversation owns from an earlier turn (file 1 of the bucket)
OwnedSegments == <<[kind |-> "gridfs", n |-> 1]>>

InitTurn ==
  /\ pc = "start"
  /\ now = 1000
  /\ aborted = FALSE
  /\ abortedAt = "none"
  /\ events = <<>>
  /\ tools = FALSE
  /\ conversation = <<>>
  /\ dbConversation = [messages |-> <<[role |-> "system", content |-> <<"prompt">>]>>,
                       audioSegments |-> OwnedSegments]
  /\ messagesForOpenAI = <<>>
  /\ callRecord = <<>>
  /\ dbCallRecord = [status |-> "active", messages |-> <<>>, cost |-> 0, latencyTurns |-> <<>>,
                     endReason |-> "none", endTime |-> Null, audioUrl |-> <<>>]
  /\ fullText = <<>> /\ pendingSpeak = <<>> /\ nDeltas = 0
  /\ ttsQueue = <<>> /\ ttsProcessing = FALSE /\ ttsIndex = 0 /\ ttsResolve = FALSE
  /\ audioSegmentIds = <<>> /\ inflight = {} /\ shifted = 0 /\ enqueued = <<>>
  /\ idleResolved = FALSE
  /\ firstTokenAt = Null /\ firstTtsAt = Null /\ ttsDoneAt = Null /\ llmDoneAt = Null
  /\ firstTtsChunkQueuedAt = Null
  /\ shouldEndCall = FALSE /\ finalAiResponse = <<>> /\ tokensUsed = 0
  /\ nextFileId = 2

------------------------------------------------------------------------------
(* chatStream: the synthesis queue *)

\* the queue state the drain works on, as one record
QS == [queue |-> ttsQueue, processing |-> ttsProcessing, resolve |-> ttsResolve,
       inflight |-> inflight, shifted |-> shifted, idle |-> idleResolved]

SetQS(qs) ==
  /\ ttsQueue' = qs.queue
  /\ ttsProcessing' = qs.processing
  /\ ttsResolve' = qs.resolve
  /\ inflight' = qs.inflight
  /\ shifted' = qs.shifted
  /\ idleResolved' = qs.idle

\* a variant without the guard
DrainMayStartAlways(processing) == TRUE

\* the guard of drainTtsQueue: a drain starts only when none is active
DrainMayStart(processing) == ~processing

\* the while loop of drainTtsQueue up to its next await: chunks that trim to
\* nothing are skipped; call is the chunk handed to textToSpeech, if any
RECURSIVE DrainLoop(_, _, _)
DrainLoop(q, n, ab) ==
  IF q = <<>> \/ ab THEN [queue |-> q, shifted |-> n, call |-> <<>>]
  ELSE IF Trim(Head(q)) = <<>> THEN DrainLoop(Tail(q), n + 1, ab)
  ELSE [queue |-> Tail(q), shifted |-> n + 1,
        call |-> <<[text |-> Trim(Head(q)), pos |-> n + 1]>>]

\* a variant that resolves the idle promise without looking at the queue
DrainFinallyResolves(qs) ==
  [qs EXCEPT !.processing = FALSE,
             !.resolve = FALSE,
             !.idle = @ \/ qs.resolve]

\* the finally block of drainTtsQueue
DrainFinally(qs) ==
  LET fire == qs.resolve /\ qs.queue = <<>>
  IN  [qs EXCEPT !.processing = FALSE,
                 !.resolve = IF fire THEN FALSE ELSE @,
                 !.idle = @ \/ fire]

\* the loop runs until it awaits a synthesis call or leaves through finally
DrainRun(qs, ab, t) ==
  LET r == DrainLoop(qs.queue, qs.shifted, ab)
      q1 == [qs EXCEPT !.queue = r.queue, !.shifted = r.shifted]
  IN  IF r.call # <<>>
      THEN [q1 EXCEPT !.inflight = @ \cup {[text |-> r.call[1].text, pos |-> r.call[1].pos,
                                            ttsStart |-> t]}]
      ELSE DrainFinally(q1)

\* drainTtsQueue()
DrainTtsQueue(qs, ab, t) ==
  IF DrainMayStart(qs.processing)
  THEN DrainRun([qs EXCEPT !.processing = TRUE], ab, t)
  ELSE qs

\* a variant that is resolved at once whatever the queue holds
TtsIdleAtOnce(qs) == [qs EXCEPT !.idle = TRUE]

\* ttsIdle(): resolved at once when nothing is queued or draining
TtsIdle(qs) ==
  IF qs.queue = <<>> /\ ~qs.processing
  THEN [qs EXCEPT !.idle = TRUE]
  ELSE [qs EXCEPT !.resolve = TRUE]

\* the extraction loop of maybeQueueChunks: the chunks pulled from the buffer
RECURSIVE PullChunks(_, _)
PullChunks(pending, acc) ==
  LET r == PickTtsChunk(pending, MinLen, MaxLen)
  IN  IF ~r.has THEN [rest |-> pending, chunks |-> acc]
      ELSE PullChunks(r.rest, Append(acc, r.chunk))

\* the forced early chunk of maybeQueueChunks: end index of the forced cut
ForcedEnd(pending) ==
  LET lim == IF ForceMaxLen < Len(pending) THEN ForceMaxLen ELSE Len(pending)
      cut == LastIndexOf(pending, " ", lim)
  IN  IF cut > ForceMinCut THEN cut ELSE lim

\* a variant that forces an early chunk of any length
\* a variant of the forced-chunk test that does not ask whether a chunk was queued
ForceDueAgain(pending, queuedAt, tokenAt, t) ==
  /\ tokenAt # Null
  /\ t - tokenAt >= ForceBudgetMs
  /\ Len(Trim(pending)) >= ForceMinChars

ForceDueAnyLength(pending, queuedAt, tokenAt, t) ==
  /\ queuedAt = Null
  /\ tokenAt # Null
  /\ t - tokenAt >= ForceBudgetMs

\* whether maybeQueueChunks forces an early chunk
ForceDue(pending, queuedAt, tokenAt, t) ==
  /\ queuedAt = Null
  /\ tokenAt # Null
  /\ t - tokenAt >= ForceBudgetMs
  /\ Len(Trim(pending)) >= ForceMinChars

\* maybeQueueChunks, up to its call of drainTtsQueue: the chunks it pushes,
\* what it leaves in the buffer and firstTtsChunkQueuedAt
MaybeQueueChunks(pending, queuedAt, tokenAt, t) ==
  LET p == PullChunks(pending, <<>>)
      at1 == IF p.chunks # <<>> /\ queuedAt = Null THEN t ELSE queuedAt
      e == ForcedEnd(p.rest)
  IN  IF ForceDue(p.rest, at1, tokenAt, t)
      THEN [rest |-> Slice(p.rest, e, Len(p.rest)),
            chunks |-> Append(p.chunks, Slice(p.rest, 0, e)),
            queuedAt |-> t, forced |-> TRUE]
      ELSE [rest |-> p.rest, chunks |-> p.chunks, queuedAt |-> at1, forced |-> FALSE]

\* a variant that pushes the trimmed remainder
\* a variant of the final flush that leaves a remainder shorter than MinLen
FinalFlushLong(pending) == IF Len(Trim(pending)) >= MinLen THEN <<pending>> ELSE <<>>

FinalFlushTrimmed(pending) == IF Trim(pending) # <<>> THEN <<Trim(pending)>> ELSE <<>>

\* the remainder chatStream pushes after generation: <<>> when it trims to nothing
FinalFlush(pending) == IF Trim(pending) # <<>> THEN <<pending>> ELSE <<>>

\* toAudioUrl for the values textToSpeech returns
ToAudioUrl(file) == IF file.kind = "gridfs" THEN <<"/api/audio/", file.n>> ELSE <<"/audio/", file.n>>

\* a variant that takes every returned value for an id of the audio store
IsObjectIdAlways(file) == file.kind \in {"gridfs", "local"}

\* mongoose.Types.ObjectId.isValid(String(audioFileId))
IsObjectId(file) == file.kind = "gridfs"

\* a variant that does not scale the retry-after header (seconds) to ms
RetryAfterMsUnscaled(err) ==
  IF err.retryAfterMsHdr # Null /\ err.retryAfterMsHdr # 0 THEN err.retryAfterMsHdr
  ELSE IF err.retryAfterHdr # Null /\ err.retryAfterHdr # 0 THEN err.retryAfterHdr
  ELSE Null

\* retryAfterMs of the catch block: a header of 0 or a missing header is falsy
RetryAfterMs(err) ==
  IF err.retryAfterMsHdr # Null /\ err.retryAfterMsHdr # 0 THEN err.retryAfterMsHdr
  ELSE IF err.retryAfterHdr # Null /\ err.retryAfterHdr # 0 THEN err.retryAfterHdr * 1000
  ELSE Null

IsRateLimit(err) == err.status = 429 \/ err.code = "rate_limit_exceeded"

\* a variant whose rate-limit branch falls through to the generic error
CatchEventsFallThrough(log, ab, err) ==
  IF ab THEN End(log)
  ELSE IF IsRateLimit(err)
       THEN End(Write(Write(log, [Ev("rate_limited") EXCEPT !.ms = RetryAfterMs(err)]),
                      Ev("error")))
       ELSE End(Write(log, Ev("error")))

\* the catch block of chatStream: the events it writes, then res.end()
CatchEvents(log, ab, err) ==
  IF ab THEN End(log)
  ELSE IF IsRateLimit(err)
       THEN End(Write(log, [Ev("rate_limited") EXCEPT !.ms = RetryAfterMs(err)]))
       ELSE End(Write(log, Ev("error")))

------------------------------------------------------------------------------
(* chatStream: the steps of one turn *)

NoLatency == [llmFirstTokenMs |-> Null, llmTotalMs |-> Null, ttsFirstAudioMs |-> Null,
              ttsTotalMs |-> Null, e2eFirstAudioMs |-> Null]

\* a variant that reports a stage that never occurred as zero
SinceOrZero(at) == IF at # Null THEN at - 1000 ELSE 0

Since(at) == IF at # Null THEN at - 1000 ELSE Null

\* languages an agent may be set to ("xx": one the language map does not know)
Languages == {"en", "es", "xx"}

\* languageMap[language] || 'English'
LanguageName(language) ==
  CASE language = "en" -> "English"
    [] language = "es" -> "Spanish"
    [] OTHER -> "English"

\* content.includes(pat), on text kept as a sequence of words
Includes(content, pat) ==
  \E i \in 1..(Len(content) - Len(pat) + 1) : SubSeq(content, i, i + Len(pat) - 1) = pat

\* the words the presence test looks for
LanguageDirective == <<"MUST", "respond in">>

\* languageInstruction
LanguageInstruction(language) ==
  <<"IMPORTANT: You", "MUST", "respond in", LanguageName(language), "(", language, ")",
    "All your responses should be in", LanguageName(language), "language">>

\* a variant of the presence test that looks for the turn's language only
HasLanguageExact(content, language) == Includes(content, <<"respond in", language>>)

\* the presence test of the language instruction
HasLanguage(content, language) ==
  \/ Includes(content, LanguageDirective)
  \/ Includes(content, <<"respond in", language>>)

\* the language instruction is appended to the first message when it is a
\* system message that does not hold it yet
WithLanguage(messages, language) ==
  IF Len(messages) > 0 /\ messages[1].role = "system"
     /\ ~HasLanguage(messages[1].content, language)
  THEN [messages EXCEPT ![1].content = @ \o LanguageInstruction(language)]
  ELSE messages

\* request validation, the conversation and agent lookups, the user message
Start(valid, found, endCall) ==
  /\ pc = "start"
  /\ IF ~valid \/ ~found
     THEN /\ events' = End(Write(events, Ev("error")))
          /\ pc' = "ended"
          /\ UNCHANGED <<tools, conversation, messagesForOpenAI>>
     ELSE LET pushed == Append(dbConversation.messages,
                               [role |-> "user", content |-> <<"message">>])
          IN  /\ tools' = endCall
              /\ messagesForOpenAI' = pushed
              /\ conversation' = [dbConversation EXCEPT !.messages = WithLanguage(pushed, "en")]
              /\ pc' = "generating"
              /\ UNCHANGED events
  /\ UNCHANGED <<now, aborted, abortedAt, dbConversation, callRecord, dbCallRecord, textVars,
                 queueVars, timeVars, resultVars, nextFileId>>
  /\ UNCHANGED notTurnVars

\* the onChunk callback: one delta of generated text
GenDelta(d) ==
  /\ pc = "generating"
  /\ ~aborted
  /\ nDeltas < MaxDeltas
  /\ \E tokenAt \in {IF firstTokenAt = Null THEN now ELSE firstTokenAt} :
     \E m \in {MaybeQueueChunks(pendingSpeak \o d, firstTtsChunkQueuedAt, tokenAt, now)} :
     \E q1 \in {[QS EXCEPT !.queue = @ \o m.chunks]} :
         /\ firstTokenAt' = tokenAt
         /\ fullText' = fullText \o d
         /\ pendingSpeak' = m.rest
         /\ firstTtsChunkQueuedAt' = m.queuedAt
         /\ enqueued' = enqueued \o m.chunks
         /\ events' = Write(events, Ev("assistant_delta"))
         /\ SetQS(IF q1.queue # <<>> THEN DrainTtsQueue(q1, aborted, now) ELSE q1)
  /\ nDeltas' = nDeltas + 1
  /\ UNCHANGED <<pc, now, aborted, abortedAt, tools, dbVars, ttsIndex, audioSegmentIds,
                 firstTtsAt, ttsDoneAt, llmDoneAt, resultVars, nextFileId>>
  /\ UNCHANGED notTurnVars

\* tokensUsed of getStreamingAIResponse: the reported usage, or an estimate
TokensUsed(usage, content, messages) ==
  IF usage = 0 /\ content # <<>>
  THEN (Len(content) + 3) \div 4 + Len(messages)
  ELSE usage

\* a variant without the fallback phrases
FinalAiResponseTrimmed(text, end) == Trim(text)

\* finalAiResponse: the trimmed text, or a fallback phrase when that is empty
FinalAiResponse(text, end) ==
  IF Trim(text) # <<>> THEN Trim(text)
  ELSE IF end THEN FallbackGoodbye ELSE FallbackRepeat

\* a variant that ends the call on any reported tool call
EndCallTriggeredAnyTool(enabled, calls) == enabled /\ calls # <<>>

\* whether end_call is triggered: the agent has an enabled end_call function
\* (the tools list is not empty) and the provider reported a call named end_call
EndCallTriggered(enabled, calls) ==
  enabled /\ \E i \in 1..Len(calls) : calls[i] = "end_call"

\* generation returns (getStreamingAIResponse does not look at the signal: an
\* aborted provider stream either throws, GenFail, or ends): end_call
\* detection, the fallback text, the final flush and the call of ttsIdle()
GenDone(calls, usage) ==
  /\ pc = "generating"
  /\ LET end == EndCallTriggered(tools, calls)
         flush == FinalFlush(pendingSpeak)
         q1 == [QS EXCEPT !.queue = @ \o flush]
         q2 == IF flush # <<>> THEN DrainTtsQueue(q1, aborted, now) ELSE q1
     IN  /\ llmDoneAt' = now
         /\ shouldEndCall' = end
         /\ finalAiResponse' = FinalAiResponse(fullText, end)
         /\ tokensUsed' = TokensUsed(usage, fullText, messagesForOpenAI)
         /\ pendingSpeak' = IF flush # <<>> THEN <<>> ELSE pendingSpeak
         /\ enqueued' = enqueued \o flush
         /\ SetQS(TtsIdle(q2))
  /\ pc' = "awaitIdle"
  /\ UNCHANGED <<now, aborted, abortedAt, events, tools, dbVars, fullText, nDeltas, ttsIndex,
                 audioSegmentIds, firstTokenAt, firstTtsAt, ttsDoneAt,
                 firstTtsChunkQueuedAt, nextFileId>>
  /\ UNCHANGED notTurnVars

\* generation throws (a provider error, or the abort of the call)
GenFail(err) ==
  /\ pc = "generating"
  /\ events' = CatchEvents(events, aborted, err)
  /\ pc' = "ended"
  /\ UNCHANGED <<now, aborted, abortedAt, tools, dbVars, textVars, queueVars, timeVars,
                 resultVars, nextFileId>>
  /\ UNCHANGED notTurnVars

\* what the drain does with the value textToSpeech returned for call c
TtsSuccess(c, file) ==
  /\ firstTtsAt' = IF firstTtsAt = Null THEN now ELSE firstTtsAt
  /\ ttsDoneAt' = now
  /\ audioSegmentIds' = IF IsObjectId(file) THEN Append(audioSegmentIds, file)
                        ELSE audioSegmentIds
  /\ events' = Write(events, [Ev("tts_audio") EXCEPT !.index = ttsIndex, !.pos = c.pos,
                                !.id = ToAudioUrl(file), !.ms = now - c.ttsStart,
                                !.text = c.text])
  /\ ttsIndex' = ttsIndex + 1
  /\ SetQS(DrainRun([QS EXCEPT !.inflight = @ \ {c}], aborted, now))

\* what the drain does when textToSpeech throws for call c
TtsFailure(c) ==
  /\ events' = IF aborted THEN events
               ELSE Write(events, [Ev("tts_error") EXCEPT !.pos = c.pos])
  /\ SetQS(DrainFinally([QS EXCEPT !.inflight = @ \ {c}]))
  /\ UNCHANGED <<firstTtsAt, ttsDoneAt, audioSegmentIds, ttsIndex>>

\* a synthesis call returns an id of the audio store
TtsStored ==
  /\ \E c \in inflight : TtsSuccess(c, [kind |-> "gridfs", n |-> nextFileId])
  /\ nextFileId' = nextFileId + 1
  /\ UNCHANGED <<pc, now, aborted, abortedAt, tools, dbVars, textVars, enqueued, firstTokenAt,
                 llmDoneAt, firstTtsChunkQueuedAt, resultVars>>
  /\ UNCHANGED notTurnVars

\* a synthesis call returns the path of a local file (the store was down)
TtsLocal ==
  /\ \E c \in inflight : TtsSuccess(c, [kind |-> "local", n |-> nextFileId])
  /\ nextFileId' = nextFileId + 1
  /\ UNCHANGED <<pc, now, aborted, abortedAt, tools, dbVars, textVars, enqueued, firstTokenAt,
                 llmDoneAt, firstTtsChunkQueuedAt, resultVars>>
  /\ UNCHANGED notTurnVars

\* a synthesis call throws
TtsThrow ==
  /\ \E c \in inflight : TtsFailure(c)
  /\ UNCHANGED <<pc, now, aborted, abortedAt, tools, dbVars, textVars, enqueued, firstTokenAt,
                 llmDoneAt, firstTtsChunkQueuedAt, resultVars, nextFileId>>
  /\ UNCHANGED notTurnVars

\* after the idle wait: the assistant message and the segment ids are saved
PersistConversation(ok) ==
  /\ pc = "awaitIdle"
  /\ idleResolved
  /\ LET doc == [messages |-> Append(conversation.messages,
                                     [role |-> "assistant", content |-> finalAiResponse]),
                 audioSegments |-> conversation.audioSegments \o audioSegmentIds]
     IN  /\ conversation' = doc
         /\ IF ok
            THEN /\ dbConversation' = doc
                 /\ pc' = "findRecord"
                 /\ UNCHANGED events
            ELSE /\ events' = CatchEvents(events, aborted,
                                          [status |-> 0, code |-> "none",
                                           retryAfterMsHdr |-> Null, retryAfterHdr |-> Null])
                 /\ pc' = "ended"
                 /\ UNCHANGED dbConversation
  /\ UNCHANGED <<now, aborted, abortedAt, tools, messagesForOpenAI, callRecord, dbCallRecord,
                 textVars, queueVars, timeVars, resultVars, nextFileId>>
  /\ UNCHANGED notTurnVars

\* CallHistory.findOne({..., status: 'active'}); no lookup without a user id
FindCallRecord(hasUser) ==
  /\ pc = "findRecord"
  /\ callRecord' = IF hasUser /\ dbCallRecord.status = "active" THEN <<dbCallRecord>> ELSE <<>>
  /\ pc' = "saveRecord"
  /\ UNCHANGED <<now, aborted, abortedAt, events, tools, conversation, dbConversation,
                 messagesForOpenAI, dbCallRecord, textVars, queueVars, timeVars,
                 resultVars, nextFileId>>
  /\ UNCHANGED notTurnVars

\* the latency object of the turn
Latency(total) ==
  [llmFirstTokenMs |-> Since(firstTokenAt), llmTotalMs |-> total,
   ttsFirstAudioMs |-> Since(firstTtsAt), ttsTotalMs |-> Since(ttsDoneAt),
   e2eFirstAudioMs |-> Since(firstTtsAt)]

NonSystem(messages) == SelectSeq(messages, LAMBDA m : m.role # "system")

\* the call record update of the turn
UpdatedRecord(rec) ==
  LET r1 == [rec EXCEPT !.messages = NonSystem(conversation.messages),
                        !.cost = @ + tokensUsed,
                        !.latencyTurns = Append(@, Latency(IF llmDoneAt # Null
                                                            THEN llmDoneAt - 1000
                                                            ELSE now - 1000))]
  IN  IF shouldEndCall
      THEN [r1 EXCEPT !.status = "ended", !.endTime = now, !.endReason = "function_triggered"]
      ELSE r1

\* the call record is saved; latency, final and done are written
SaveCallRecord ==
  /\ pc = "saveRecord"
  /\ IF callRecord # <<>>
     THEN /\ callRecord' = <<UpdatedRecord(callRecord[1])>>
          /\ dbCallRecord' = UpdatedRecord(callRecord[1])
     ELSE UNCHANGED <<callRecord, dbCallRecord>>
  /\ events' = End(Write(Write(Write(events,
                  [Ev("latency") EXCEPT !.text = <<Latency(Since(llmDoneAt))>>]),
                  [Ev("final") EXCEPT !.text = finalAiResponse, !.flag = shouldEndCall]),
                  Ev("done")))
  /\ pc' = "ended"
  /\ UNCHANGED <<now, aborted, abortedAt, tools, conversation, dbConversation, messagesForOpenAI,
                 textVars, queueVars, timeVars, resultVars, nextFileId>>
  /\ UNCHANGED notTurnVars

\* the request's close event; once the idle promise is resolved the turn goes
\* on to persistence before any other event is handled
Abort ==
  /\ ~aborted
  /\ pc # "start"
  /\ ~(pc = "awaitIdle" /\ idleResolved)
  /\ aborted' = TRUE
  /\ abortedAt' = pc
  /\ UNCHANGED <<pc, now, events, tools, dbVars, textVars, queueVars, timeVars,
                 resultVars, nextFileId>>
  /\ UNCHANGED notTurnVars

\* time passes
Tick ==
  /\ now < 1000 + MaxTicks * TickMs
  /\ pc \notin {"start", "ended"}
  /\ now' = now + TickMs
  /\ UNCHANGED <<pc, aborted, abortedAt, events, tools, dbVars, textVars, queueVars, timeVars,
                 resultVars, nextFileId>>
  /\ UNCHANGED notTurnVars

NextTurn ==
  \/ \E valid \in BOOLEAN, found \in BOOLEAN, endCall \in BOOLEAN : Start(valid, found, endCall)
  \/ \E d \in Deltas : GenDelta(d)
  \/ \E calls \in ToolCalls, usage \in {0, 120} : GenDone(calls, usage)
  \/ \E err \in GenErrors : GenFail(err)
  \/ TtsStored
  \/ TtsLocal
  \/ TtsThrow
  \/ \E ok \in BOOLEAN : PersistConversation(ok)
  \/ \E hasUser \in BOOLEAN : FindCallRecord(hasUser)
  \/ SaveCallRecord
  \/ Abort
  \/ Tick

------------------------------------------------------------------------------
(* ttsController: one-time delivery tokens *)

\* ttlMs of createTtsToken
TtlMs == 180000

\* bounds of the model
MaxTokens == 2

MaxFetches == 2

MaxTokTicks == 2

Payloads == <<"hello", "bye">>

InitToken ==
  /\ ttsTokenStore = <<>>
  /\ tokNow = 1000
  /\ minted = <<>>
  /\ mintedAt = <<>>
  /\ tokReqs = {}
  /\ tokLog = <<>>
  /\ nextRid = 1

\* a variant that lets the token live through the instant of its expiry
ExpiredStrict(item, t) == item.expiresAt < t

\* item.expiresAt <= Date.now()
Expired(item, t) == item.expiresAt <= t

Without(store, S) == [k \in DOMAIN store \ S |-> store[k]]

\* _cleanupExpiredTokens
CleanupExpiredTokens(store, t) == Without(store, {k \in DOMAIN store : Expired(store[k], t)})

\* a variant that leaves the token in the store
ConsumeTokenKept(store, token) == store

\* ttsTokenStore.delete(token) of streamTtsByToken
ConsumeToken(store, token) == Without(store, {token})

\* createTtsToken(payload): tokens are fresh random strings, here numbered
CreateTtsToken(payload) ==
  /\ Len(minted) < MaxTokens
  /\ LET token == Len(minted) + 1
         cleaned == CleanupExpiredTokens(ttsTokenStore, tokNow)
     IN  /\ ttsTokenStore' = [k \in DOMAIN cleaned \cup {token} |->
                                IF k = token
                                THEN [text |-> payload, expiresAt |-> tokNow + TtlMs]
                                ELSE cleaned[k]]
         /\ minted' = Append(minted, payload)
         /\ mintedAt' = Append(mintedAt, tokNow)
  /\ UNCHANGED <<tokNow, tokReqs, tokLog, nextRid>>
  /\ UNCHANGED notTokVars

\* streamTtsByToken up to its await: 404, or the token is deleted and
\* streamTextToSpeech is called with the stored parameters
StreamTtsByToken(token) ==
  /\ nextRid <= MaxFetches
  /\ nextRid' = nextRid + 1
  /\ IF token \notin DOMAIN ttsTokenStore \/ Expired(ttsTokenStore[token], tokNow)
     THEN /\ tokLog' = Append(tokLog, [rid |-> nextRid, token |-> token, result |-> "404",
                                       text |-> "", at |-> tokNow])
          /\ UNCHANGED <<ttsTokenStore, tokReqs>>
     ELSE /\ ttsTokenStore' = ConsumeToken(ttsTokenStore, token)
          /\ tokReqs' = tokReqs \cup {[rid |-> nextRid, token |-> token]}
          /\ tokLog' = Append(tokLog, [rid |-> nextRid, token |-> token, result |-> "synthesis",
                                       text |-> ttsTokenStore[token].text, at |-> tokNow])
  /\ UNCHANGED <<tokNow, minted, mintedAt>>
  /\ UNCHANGED notTokVars

\* streamTextToSpeech resolves: the stream is piped to the response
StreamPiped ==
  /\ \E r \in tokReqs :
       /\ tokReqs' = tokReqs \ {r}
       /\ tokLog' = Append(tokLog, [rid |-> r.rid, token |-> r.token, result |-> "piped",
                                    text |-> "", at |-> tokNow])
  /\ UNCHANGED <<ttsTokenStore, tokNow, minted, mintedAt, nextRid>>
  /\ UNCHANGED notTokVars

\* streamTextToSpeech rejects: 500
StreamFailed ==
  /\ \E r \in tokReqs :
       /\ tokReqs' = tokReqs \ {r}
       /\ tokLog' = Append(tokLog, [rid |-> r.rid, token |-> r.token, result |-> "500",
                                    text |-> "", at |-> tokNow])
  /\ UNCHANGED <<ttsTokenStore, tokNow, minted, mintedAt, nextRid>>
  /\ UNCHANGED notTokVars

\* streamTextToSpeech resolves, the stream is piped and emits 'error': the
\* response is ended
StreamErrored ==
  /\ \E r \in tokReqs :
       /\ tokReqs' = tokReqs \ {r}
       /\ tokLog' = Append(tokLog, [rid |-> r.rid, token |-> r.token,
                                    result |-> "stream_error", text |-> "", at |-> tokNow])
  /\ UNCHANGED <<ttsTokenStore, tokNow, minted, mintedAt, nextRid>>
  /\ UNCHANGED notTokVars

\* time passes, half a TTL at a time
TokTick ==
  /\ tokNow < 1000 + MaxTokTicks * (TtlMs \div 2)
  /\ tokNow' = tokNow + TtlMs \div 2
  /\ UNCHANGED <<ttsTokenStore, minted, mintedAt, tokReqs, tokLog, nextRid>>
  /\ UNCHANGED notTokVars

NextToken ==
  \/ \E payload \in {Payloads[(Len(minted) % 2) + 1]} : CreateTtsToken(payload)
  \/ \E token \in 0..MaxTokens : StreamTtsByToken(token)
  \/ StreamPiped
  \/ StreamFailed
  \/ StreamErrored
  \/ TokTick

------------------------------------------------------------------------------
(* audioMergeService: merging the segments of a conversation *)

\* bounds of the model
MaxSegments == 3

SegmentIds == 1..MaxSegments

\* the bytes of temporary segment id
SegmentBytes(id) == <<id, id + 100>>

\* sequences of distinct segment ids
IdLists == {l \in UNION {[1..n -> SegmentIds] : n \in 0..MaxSegments} :
              \A i, j \in DOMAIN l : i # j => l[i] # l[j]}

\* every segment is stored, no merge is running
InitMerge ==
  /\ bucket = [id \in SegmentIds |-> [bytes |-> SegmentBytes(id), type |-> "temporary",
                                      expiresAt |-> 1000 + 86400000]]
  /\ mpc = "idle"
  /\ audioFileIds = <<>>
  /\ mIdx = 0
  /\ audioBuffers = <<>>
  /\ skipped = {}
  /\ mergedFileId = Null

\* Buffer.concat
RECURSIVE BufferConcat(_)
BufferConcat(buffers) ==
  IF buffers = <<>> THEN <<>> ELSE Head(buffers) \o BufferConcat(Tail(buffers))

\* mergeAudioBuffers
MergeAudioBuffers(buffers) == BufferConcat(buffers)

\* a variant that puts the buffer in front
PushBufferFirst(buffers, buffer) == <<buffer>> \o buffers

\* audioBuffers.push(buffer)
PushBuffer(buffers, buffer) == Append(buffers, buffer)

\* entry of mergeConversationAudio: an empty list throws
MergeBegin(ids) ==
  /\ audioFileIds' = ids
  /\ mpc' = IF ids = <<>> THEN "failed" ELSE "downloading"
  /\ UNCHANGED <<bucket, mIdx, audioBuffers, skipped, mergedFileId>>

\* mergeConversationAudio(audioFileIds, conversationId) is called
MergeStart(ids) ==
  /\ mpc = "idle"
  /\ MergeBegin(ids)
  /\ UNCHANGED notMergeVars

\* downloadAudioFromGridFS resolves for the next id
DownloadOk ==
  /\ mpc = "downloading"
  /\ mIdx < Len(audioFileIds)
  /\ audioFileIds[mIdx + 1] \in DOMAIN bucket
  /\ audioBuffers' = PushBuffer(audioBuffers, bucket[audioFileIds[mIdx + 1]].bytes)
  /\ mIdx' = mIdx + 1
  /\ UNCHANGED <<bucket, mpc, audioFileIds, skipped, mergedFileId>>
  /\ UNCHANGED notMergeVars

\* downloadAudioFromGridFS rejects for the next id (no such file, or a read
\* error): the segment is skipped
DownloadFails ==
  /\ mpc = "downloading"
  /\ mIdx < Len(audioFileIds)
  /\ skipped' = skipped \cup {mIdx + 1}
  /\ mIdx' = mIdx + 1
  /\ UNCHANGED <<bucket, mpc, audioFileIds, audioBuffers, mergedFileId>>
  /\ UNCHANGED notMergeVars

\* the id GridFS gives the merged file
MergedId == MaxSegments + 1

\* after the loop: nothing downloaded throws, else the buffers are merged
\* and storeMergedAudio uploads the result
StoreMerged(ok) ==
  /\ mpc = "downloading"
  /\ mIdx = Len(audioFileIds)
  /\ IF audioBuffers = <<>> \/ ~ok
     THEN /\ mpc' = "failed"
          /\ UNCHANGED <<bucket, mergedFileId>>
     ELSE /\ bucket' = [id \in DOMAIN bucket \cup {MergedId} |->
                          IF id = MergedId
                          THEN [bytes |-> MergeAudioBuffers(audioBuffers),
                                type |-> "full_conversation", expiresAt |-> Null]
                          ELSE bucket[id]]
          /\ mergedFileId' = MergedId
          /\ mpc' = "done"
  /\ UNCHANGED <<audioFileIds, mIdx, audioBuffers, skipped>>
  /\ UNCHANGED notMergeVars

NextMerge ==
  \/ \E ids \in IdLists : MergeStart(ids)
  \/ DownloadOk
  \/ DownloadFails
  \/ \E ok \in BOOLEAN : StoreMerged(ok)

------------------------------------------------------------------------------
(* endConversation: the call is ended, its segments merged and deleted *)

InitEnd ==
  /\ epc = "idle"
  /\ eRecord = <<>>
  /\ eStatus = Null
  /\ dIdx = 0

\* the file records of ids, as chatStream keeps them in audioSegments
Files(ids) == [i \in 1..Len(ids) |-> [kind |-> "gridfs", n |-> ids[i]]]

\* the ids of file records
FileIds(files) == [i \in 1..Len(files) |-> files[i].n]

\* what earlier chatStream turns stored: the turn's messages and segment ids
\* in the conversation, and the call record ended when end_call was triggered
TurnsStored(ids, endCall) ==
  /\ epc = "idle"
  /\ Len(dbConversation.messages) = 1
  /\ \A i \in 1..Len(ids) :
       \A j \in 1..Len(dbConversation.audioSegments) : ids[i] # dbConversation.audioSegments[j].n
  /\ dbConversation' =
       [messages |-> dbConversation.messages \o
                     <<[role |-> "user", content |-> <<"message">>],
                       [role |-> "assistant", content |-> <<"reply">>]>>,
        audioSegments |-> dbConversation.audioSegments \o Files(ids)]
  /\ dbCallRecord' =
       IF endCall
       THEN [dbCallRecord EXCEPT !.status = "ended", !.endTime = now,
                                 !.endReason = "function_triggered"]
       ELSE dbCallRecord
  /\ UNCHANGED <<pc, now, aborted, abortedAt, events, tools, conversation, messagesForOpenAI,
                 callRecord, textVars, queueVars, timeVars, resultVars, nextFileId>>
  /\ UNCHANGED <<tokVars, mergeVars, endVars, draftVars, langVars, sweepVars, pickVars, callVars, workerVars>>

\* endConversation up to its first await of the merge: the lookups, the 404
\* answers, the fields of the call record, the call of mergeConversationAudio
EndStart(found, hasUser) ==
  /\ epc = "idle"
  /\ IF ~found \/ ~hasUser \/ dbCallRecord.status # "active"
     THEN /\ eStatus' = 404
          /\ epc' = "ended"
          /\ UNCHANGED <<eRecord, mergeVars>>
     ELSE /\ eRecord' = <<[dbCallRecord EXCEPT !.endTime = now, !.status = "ended",
                                             !.endReason = "user_hangup",
                                             !.messages = NonSystem(dbConversation.messages)]>>
          /\ UNCHANGED eStatus
          /\ IF dbConversation.audioSegments # <<>>
             THEN /\ MergeBegin(FileIds(dbConversation.audioSegments))
                  /\ epc' = "merging"
             ELSE /\ epc' = "saving"
                  /\ UNCHANGED mergeVars
  /\ UNCHANGED <<dIdx, turnVars, tokVars, draftVars, langVars, sweepVars, pickVars, callVars, workerVars>>

\* mergeConversationAudio has returned or thrown
EndMerged ==
  /\ epc = "merging"
  /\ mpc \in {"done", "failed"}
  /\ IF mpc = "done"
     THEN /\ eRecord' = <<[eRecord[1] EXCEPT
                             !.audioUrl = ToAudioUrl([kind |-> "gridfs", n |-> mergedFileId])]>>
          /\ epc' = "deleting"
     ELSE /\ epc' = "saving"
          /\ UNCHANGED eRecord
  /\ UNCHANGED <<eStatus, dIdx, turnVars, tokVars, mergeVars, draftVars, langVars, sweepVars, pickVars, callVars, workerVars>>

\* one round of the loop of deleteTemporaryAudioSegments over
\* conversation.audioSegments: bucket.delete resolves or rejects
DeleteSegment(ok) ==
  /\ epc = "deleting"
  /\ dIdx < Len(audioFileIds)
  /\ bucket' = IF ok /\ audioFileIds[dIdx + 1] \in DOMAIN bucket
               THEN Without(bucket, {audioFileIds[dIdx + 1]})
               ELSE bucket
  /\ dIdx' = dIdx + 1
  /\ epc' = IF dIdx + 1 = Len(audioFileIds) THEN "saving" ELSE "deleting"
  /\ UNCHANGED <<mpc, audioFileIds, mIdx, audioBuffers, skipped, mergedFileId>>
  /\ UNCHANGED <<eRecord, eStatus, turnVars, tokVars, draftVars, langVars, sweepVars, pickVars, callVars, workerVars>>

\* callRecord.save() and the answer
EndSave(ok) ==
  /\ epc = "saving"
  /\ IF ok
     THEN /\ dbCallRecord' = eRecord[1]
          /\ eStatus' = 200
     ELSE /\ eStatus' = 500
          /\ UNCHANGED dbCallRecord
  /\ epc' = "ended"
  /\ UNCHANGED <<pc, now, aborted, abortedAt, events, tools, conversation, dbConversation,
                 messagesForOpenAI, callRecord, textVars, queueVars, timeVars, resultVars,
                 nextFileId>>
  /\ UNCHANGED <<eRecord, dIdx, tokVars, mergeVars, draftVars, langVars, sweepVars, pickVars, callVars, workerVars>>

NextEnd ==
  \/ \E ids \in IdLists, endCall \in BOOLEAN : TurnsStored(ids, endCall)
  \/ \E found \in BOOLEAN, hasUser \in BOOLEAN : EndStart(found, hasUser)
  \/ DownloadOk
  \/ DownloadFails
  \/ \E ok \in BOOLEAN : StoreMerged(ok)
  \/ EndMerged
  \/ \E ok \in BOOLEAN : DeleteSegment(ok)
  \/ \E ok \in BOOLEAN : EndSave(ok)

------------------------------------------------------------------------------
(* prefetchDraft: a speculative reply to a draft of the user's speech *)

InitDraft ==
  /\ dpc = "idle" /\ dEvents = <<>> /\ dMessages = <<>> /\ dAborted = FALSE
  /\ dFirstTokenAt = Null /\ dNow = 1000 /\ dDeltas = 0

\* the speculative last user message
DraftMessage == [role |-> "user", content |-> <<"Partial speech (may change): ", "draft">>]

\* validation, the conversation lookup and the messages for the provider
DraftStart(valid, found, language) ==
  /\ dpc = "idle"
  /\ IF ~valid \/ ~found
     THEN /\ dEvents' = End(Write(dEvents, Ev("error")))
          /\ dpc' = "ended"
          /\ UNCHANGED dMessages
     ELSE /\ dMessages' = Append(WithLanguage(dbConversation.messages, language), DraftMessage)
          /\ dpc' = "generating"
          /\ UNCHANGED dEvents
  /\ UNCHANGED <<dAborted, dFirstTokenAt, dNow, dDeltas>>
  /\ UNCHANGED notDraftVars

\* the onChunk callback of the draft
DraftDelta ==
  /\ dpc = "generating"
  /\ ~dAborted
  /\ dDeltas < MaxDeltas
  /\ dFirstTokenAt' = IF dFirstTokenAt = Null THEN dNow ELSE dFirstTokenAt
  /\ dEvents' = Write(dEvents, Ev("assistant_delta"))
  /\ dDeltas' = dDeltas + 1
  /\ UNCHANGED <<dpc, dMessages, dAborted, dNow>>
  /\ UNCHANGED notDraftVars

\* a variant that closes the draft with the final event of a turn
DraftDoneEventsFinal(log, tokenAt, at) ==
  End(Write(Write(log, [type |-> "latency", llmFirstTokenMs |-> Since(tokenAt),
                        llmTotalMs |-> at - 1000]),
            Ev("final")))

\* the events written when generation has returned, then res.end()
DraftDoneEvents(log, tokenAt, at) ==
  End(Write(Write(log, [type |-> "latency", llmFirstTokenMs |-> Since(tokenAt),
                        llmTotalMs |-> at - 1000]),
            Ev("done")))

\* generation returns
DraftDone ==
  /\ dpc = "generating"
  /\ dEvents' = DraftDoneEvents(dEvents, dFirstTokenAt, dNow)
  /\ dpc' = "ended"
  /\ UNCHANGED <<dMessages, dAborted, dFirstTokenAt, dNow, dDeltas>>
  /\ UNCHANGED notDraftVars

\* the catch block of prefetchDraft: the events it writes, then res.end()
DraftCatch(log, ab, err) ==
  IF ab THEN End(log)
  ELSE IF err.status = 429 \/ err.code = "rate_limit_exceeded"
       THEN End(Write(log, [Ev("rate_limited") EXCEPT !.ms = RetryAfterMs(err)]))
       ELSE End(Write(log, Ev("error")))

\* generation throws
DraftFail(err) ==
  /\ dpc = "generating"
  /\ dEvents' = DraftCatch(dEvents, dAborted, err)
  /\ dpc' = "ended"
  /\ UNCHANGED <<dMessages, dAborted, dFirstTokenAt, dNow, dDeltas>>
  /\ UNCHANGED notDraftVars

\* the client closes the connection
DraftAbort ==
  /\ dpc = "generating"
  /\ ~dAborted
  /\ dAborted' = TRUE
  /\ UNCHANGED <<dpc, dEvents, dMessages, dFirstTokenAt, dNow, dDeltas>>
  /\ UNCHANGED notDraftVars

\* time passes
DraftTick ==
  /\ dpc = "generating"
  /\ dNow < 1000 + MaxTicks * TickMs
  /\ dNow' = dNow + TickMs
  /\ UNCHANGED <<dpc, dEvents, dMessages, dAborted, dFirstTokenAt, dDeltas>>
  /\ UNCHANGED notDraftVars

NextDraft ==
  \/ \E ids \in IdLists, endCall \in BOOLEAN : TurnsStored(ids, endCall)
  \/ \E valid, found \in BOOLEAN, language \in Languages : DraftStart(valid, found, language)
  \/ DraftDelta
  \/ DraftDone
  \/ \E err \in GenErrors : DraftFail(err)
  \/ DraftAbort
  \/ DraftTick

------------------------------------------------------------------------------
(* chat and chatStream: the language instruction over the turns of a conversation *)

MaxTurns == 3

\* system prompts a conversation may be started with
Prompts == {<<"prompt">>, <<"prompt", "respond in", "es">>, <<"You", "MUST", "respond in", "French">>}

InitLang == lLog = <<>>

\* everything of the turn model but the stored conversation
turnRest == <<pc, now, aborted, abortedAt, events, tools, conversation, messagesForOpenAI,
              callRecord, dbCallRecord, textVars, queueVars, timeVars, resultVars, nextFileId>>

\* startConversation: the conversation is stored with its system message
StartConversation(prompt) ==
  /\ lLog = <<>>
  /\ dbConversation' = [dbConversation EXCEPT
                          !.messages = <<[role |-> "system", content |-> prompt]>>]
  /\ lLog' = <<[op |-> "startConversation", prompt |-> prompt]>>
  /\ UNCHANGED <<turnRest, tokVars, mergeVars, endVars, draftVars, sweepVars, pickVars, callVars, workerVars>>

\* the conversation document of a turn: the user message is pushed, then the
\* language instruction is appended to the first message where it is missing
TurnDocument(messages, language) ==
  WithLanguage(Append(messages, [role |-> "user", content |-> <<"message">>]), language)

\* the messages of a completed turn
Replied(messages) == Append(messages, [role |-> "assistant", content |-> <<"reply">>])

\* a turn of chat: the document is saved as soon as the instruction was
\* appended, and again with the reply; ok: the reply was generated and saved
ChatTurn(language, ok) ==
  /\ lLog # <<>>
  /\ Len(lLog) <= MaxTurns
  /\ \E doc \in {TurnDocument(dbConversation.messages, language)} :
       dbConversation' =
         IF ok THEN [dbConversation EXCEPT !.messages = Replied(doc)]
         ELSE IF doc[1] # dbConversation.messages[1]
              THEN [dbConversation EXCEPT !.messages = doc]
              ELSE dbConversation
  /\ lLog' = Append(lLog, [op |-> "chat", language |-> language, ok |-> ok])
  /\ UNCHANGED <<turnRest, tokVars, mergeVars, endVars, draftVars, sweepVars, pickVars, callVars, workerVars>>

\* a turn of chatStream: the document is saved once, with the reply, after
\* the synthesis queue is idle; ok: the turn got that far and the save succeeded
ChatStreamTurn(language, ok) ==
  /\ lLog # <<>>
  /\ Len(lLog) <= MaxTurns
  /\ \E doc \in {TurnDocument(dbConversation.messages, language)} :
       dbConversation' =
         IF ok THEN [dbConversation EXCEPT !.messages = Replied(doc)]
         ELSE dbConversation
  /\ lLog' = Append(lLog, [op |-> "chatStream", language |-> language, ok |-> ok])
  /\ UNCHANGED <<turnRest, tokVars, mergeVars, endVars, draftVars, sweepVars, pickVars, callVars, workerVars>>

NextLang ==
  \/ \E prompt \in Prompts : StartConversation(prompt)
  \/ \E language \in Languages, ok \in BOOLEAN : ChatTurn(language, ok)
  \/ \E language \in Languages, ok \in BOOLEAN : ChatStreamTurn(language, ok)

------------------------------------------------------------------------------
(* audioCacheService: the sweep of expired audio *)

MaxSweeps == 2

MaxSweepTicks == 2

\* lifetime of a temporary segment
DayMs == 86400000

InitSweep ==
  /\ spc = "idle" /\ sNow = 1000 /\ sAt = Null /\ expiredFiles = <<>> /\ sIdx = 0
  /\ sFailed = {} /\ sDeleted = {} /\ sSweeps = 0

\* the merge state a sweep leaves alone
mergeRest == <<mpc, audioFileIds, mIdx, audioBuffers, skipped, mergedFileId>>

notSweepVars == <<turnVars, tokVars, endVars, draftVars, langVars, pickVars, callVars, workerVars>>

\* a variant of the query that compares a null expiry as a number
SweepMatchesNumeric(file, t) == file.expiresAt < t

\* the query {'metadata.expiresAt': {$lt: now}}: a null expiry matches no date
SweepMatches(file, t) == file.expiresAt # Null /\ file.expiresAt < t

\* the ids of set S in ascending order
RECURSIVE Ascending(_)
Ascending(S) ==
  IF S = {} THEN <<>>
  ELSE LET m == CHOOSE x \in S : \A y \in S : x <= y
       IN  <<m>> \o Ascending(S \ {m})

\* cleanupExpiredAudio up to its loop: the query for the expired files
SweepStart ==
  /\ spc = "idle"
  /\ sSweeps < MaxSweeps
  /\ sSweeps' = sSweeps + 1
  /\ sAt' = sNow
  /\ expiredFiles' = Ascending({id \in DOMAIN bucket : SweepMatches(bucket[id], sNow)})
  /\ sIdx' = 0
  /\ sFailed' = {}
  /\ spc' = "deleting"
  /\ UNCHANGED <<sNow, sDeleted, bucket, mergeRest, notSweepVars>>

\* one round of the loop: bucket.delete resolves, or rejects and is logged
SweepDelete(ok) ==
  /\ spc = "deleting"
  /\ sIdx < Len(expiredFiles)
  /\ \E id \in {expiredFiles[sIdx + 1]} :
       IF ok /\ id \in DOMAIN bucket
       THEN /\ bucket' = [k \in DOMAIN bucket \ {id} |-> bucket[k]]
            /\ sDeleted' = sDeleted \cup {[id |-> id, expiresAt |-> bucket[id].expiresAt,
                                           at |-> sAt]}
            /\ UNCHANGED sFailed
       ELSE /\ sFailed' = sFailed \cup {id}
            /\ UNCHANGED <<bucket, sDeleted>>
  /\ sIdx' = sIdx + 1
  /\ UNCHANGED <<spc, sNow, sAt, expiredFiles, sSweeps, mergeRest, notSweepVars>>

\* after the loop: the counts are returned
SweepDone ==
  /\ spc = "deleting"
  /\ sIdx = Len(expiredFiles)
  /\ spc' = "idle"
  /\ UNCHANGED <<sNow, sAt, expiredFiles, sIdx, sFailed, sDeleted, sSweeps, bucket, mergeRest,
                 notSweepVars>>

\* time passes, a segment lifetime at a time
SweepTick ==
  /\ sNow < 1000 + MaxSweepTicks * DayMs
  /\ sNow' = sNow + DayMs
  /\ UNCHANGED <<spc, sAt, expiredFiles, sIdx, sFailed, sDeleted, sSweeps, bucket, mergeRest,
                 notSweepVars>>

NextSweep ==
  \/ \E ids \in IdLists : MergeStart(ids)
  \/ DownloadOk
  \/ DownloadFails
  \/ \E ok \in BOOLEAN : StoreMerged(ok)
  \/ SweepStart
  \/ \E ok \in BOOLEAN : SweepDelete(ok)
  \/ SweepDone
  \/ SweepTick

------------------------------------------------------------------------------
(* _pickTtsChunk on its own: a buffer that grows and is cut *)

MaxPieces == 4

\* pieces of text the buffer grows by
Pieces ==
  {Rep("a", 20), Rep("a", 150), <<" ">>, <<".", " ">>, <<"\n">>, <<"?">>}

InitPick ==
  /\ pkPending = <<>> /\ pkText = <<>> /\ pkChunks = <<>>
  /\ pkInput = <<>> /\ pkResult = [has |-> FALSE, chunk |-> <<>>, rest |-> <<>>]
  /\ pkGrown = 0

notPickVars == <<turnVars, tokVars, mergeVars, endVars, draftVars, langVars, sweepVars, callVars, workerVars>>

\* pendingSpeak += delta
PickGrow(piece) ==
  /\ pkGrown < MaxPieces
  /\ pkPending' = pkPending \o piece
  /\ pkText' = pkText \o piece
  /\ pkGrown' = pkGrown + 1
  /\ UNCHANGED <<pkChunks, pkInput, pkResult, notPickVars>>

\* one round of the extraction loop: a call, and the chunk taken when there is one
PickCall ==
  /\ \E r \in {PickTtsChunk(pkPending, MinLen, MaxLen)} :
       /\ pkInput' = pkPending
       /\ pkResult' = r
       /\ IF r.has /\ r.chunk # <<>>
          THEN pkPending' = r.rest /\ pkChunks' = Append(pkChunks, r.chunk)
          ELSE UNCHANGED <<pkPending, pkChunks>>
  /\ UNCHANGED <<pkText, pkGrown, notPickVars>>

NextPick ==
  \/ \E piece \in Pieces : PickGrow(piece)
  \/ PickCall

------------------------------------------------------------------------------
(* The call record under overlapping requests: the record update of chat   *)
(* and chatStream, and endConversation with its merge.  Each step runs     *)
(* from one await to the next.                                             *)

MaxRequests == 2

MaxCallTicks == 1

MaxEarlierTurns == 2

Requests == 1..MaxRequests

\* a request that has not arrived
IdleRequest ==
  [kind |-> "none", pc |-> "idle", doc |-> <<>>, mod |-> {}, saw |-> "none",
   messages |-> 0, ids |-> <<>>, idx |-> 0, bufs |-> <<>>, status |-> Null]

\* startConversation has stored the conversation and an active call record
InitCall ==
  /\ cNow = 1000
  /\ cConv = [messages |-> 0, audioSegments |-> <<>>]
  /\ cRecord = [status |-> "active", v |-> 0, messages |-> 0, cost |-> 0, turns |-> 0,
                endTime |-> Null, endReason |-> "none", audioUrl |-> Null]
  /\ cBucket = <<>>
  /\ cReq = [r \in Requests |-> IdleRequest]
  /\ cLog = <<>>
  /\ cNextId = 1

notCallVars ==
  <<turnVars, tokVars, mergeVars, endVars, draftVars, langVars, sweepVars, pickVars, workerVars>>

\* a temporary segment, and a merged file holding the listed segments
Segment(id) == [type |-> "temporary", segs |-> <<id>>]

MergedFile(bufs) == [type |-> "full_conversation", segs |-> bufs]

\* the bucket with file id stored
Stored(b, id, file) == [k \in DOMAIN b \cup {id} |-> IF k = id THEN file ELSE b[k]]

\* CallHistory.findOne({..., status: 'active'}) finds the record
FindActive(rec) == rec.status = "active"

\* earlier chatStream turns, one after the other: each stored two messages
\* and one segment and updated the call record
EarlierTurns(n) ==
  /\ cConv.messages = 0 /\ cLog = <<>>
  /\ \A r \in Requests : cReq[r].pc = "idle"
  /\ cConv' = [messages |-> 2 * n, audioSegments |-> [i \in 1..n |-> i]]
  /\ cBucket' = [i \in 1..n |-> Segment(i)]
  /\ cRecord' = [cRecord EXCEPT !.messages = 2 * n, !.cost = n, !.turns = n, !.v = n]
  /\ cNextId' = n + 1
  /\ UNCHANGED <<cNow, cReq, cLog, notCallVars>>

\* a turn up to its lookup of the call record: the user and assistant
\* messages, and for chatStream a segment, are stored with the conversation
TurnPersisted(r, kind) ==
  /\ cReq[r].pc = "idle"
  /\ cConv' = [messages |-> cConv.messages + 2,
               audioSegments |-> IF kind = "chatStream"
                                 THEN Append(cConv.audioSegments, cNextId)
                                 ELSE cConv.audioSegments]
  /\ cBucket' = IF kind = "chatStream" THEN Stored(cBucket, cNextId, Segment(cNextId))
                ELSE cBucket
  /\ cNextId' = IF kind = "chatStream" THEN cNextId + 1 ELSE cNextId
  /\ cReq' = [cReq EXCEPT ![r] = [@ EXCEPT !.kind = kind, !.pc = "persisted",
                                           !.messages = cConv.messages + 2]]
  /\ UNCHANGED <<cNow, cRecord, cLog, notCallVars>>

\* the paths of the record a request assigns; messages only when the new
\* list is not the empty list the record already holds
Modified(rec, messages, paths) ==
  paths \cup (IF messages = 0 /\ rec.messages = 0 THEN {} ELSE {"messages"})

\* the lookup of the turn has answered: without a record the update is
\* skipped, else the fields are assigned and save() is called
TurnFound(r, endCall) ==
  /\ cReq[r].pc = "persisted"
  /\ IF FindActive(cRecord)
     THEN cReq' = [cReq EXCEPT ![r] =
            [@ EXCEPT !.pc = "saving", !.saw = cRecord.status,
               !.doc = [cRecord EXCEPT
                          !.messages = cReq[r].messages,
                          !.cost = @ + 1,
                          !.turns = IF cReq[r].kind = "chatStream" THEN @ + 1 ELSE @,
                          !.status = IF endCall THEN "ended" ELSE @,
                          !.endTime = IF endCall THEN cNow ELSE @,
                          !.endReason = IF endCall THEN "function_triggered" ELSE @],
               !.mod = Modified(cRecord, cReq[r].messages,
                                {"cost", "turns"} \cup
                                (IF endCall THEN {"status", "endTime", "endReason"} ELSE {}))]]
     ELSE cReq' = [cReq EXCEPT ![r] = [@ EXCEPT !.pc = "done", !.saw = cRecord.status]]
  /\ UNCHANGED <<cNow, cConv, cRecord, cBucket, cLog, cNextId, notCallVars>>

\* endConversation: the conversation has been read
EndRequested(r) ==
  /\ cReq[r].pc = "idle"
  /\ cReq' = [cReq EXCEPT ![r] = [@ EXCEPT !.kind = "end", !.pc = "requested",
                                           !.messages = cConv.messages,
                                           !.ids = cConv.audioSegments]]
  /\ UNCHANGED <<cNow, cConv, cRecord, cBucket, cLog, cNextId, notCallVars>>

\* endConversation: the lookup of the record has answered: 404 without a
\* record, else the end fields are assigned and the merge is called when the
\* conversation has segments
EndFound(r) ==
  /\ cReq[r].pc = "requested"
  /\ IF FindActive(cRecord)
     THEN cReq' = [cReq EXCEPT ![r] =
            [@ EXCEPT !.pc = IF cReq[r].ids # <<>> THEN "merging" ELSE "saving",
               !.saw = cRecord.status,
               !.doc = [cRecord EXCEPT !.endTime = cNow, !.status = "ended",
                                       !.endReason = "user_hangup",
                                       !.messages = cReq[r].messages],
               !.mod = Modified(cRecord, cReq[r].messages,
                                {"endTime", "status", "endReason"})]]
     ELSE cReq' = [cReq EXCEPT ![r] =
            [@ EXCEPT !.pc = "done", !.saw = cRecord.status, !.status = 404]]
  /\ UNCHANGED <<cNow, cConv, cRecord, cBucket, cLog, cNextId, notCallVars>>

\* mergeConversationAudio: the download of the next segment resolves, or
\* rejects because the file is gone and the segment is skipped
EndDownload(r) ==
  /\ cReq[r].pc = "merging"
  /\ cReq[r].idx < Len(cReq[r].ids)
  /\ \E id \in {cReq[r].ids[cReq[r].idx + 1]} :
       cReq' = [cReq EXCEPT ![r] =
         [@ EXCEPT !.idx = @ + 1,
                   !.bufs = IF id \in DOMAIN cBucket THEN Append(@, id) ELSE @]]
  /\ UNCHANGED <<cNow, cConv, cRecord, cBucket, cLog, cNextId, notCallVars>>

\* mergeConversationAudio after its loop: it throws with nothing downloaded
\* or when the upload fails, else the merged file is stored and its address
\* assigned to the record
EndMergeStored(r, ok) ==
  /\ cReq[r].pc = "merging"
  /\ cReq[r].idx = Len(cReq[r].ids)
  /\ IF cReq[r].bufs = <<>> \/ ~ok
     THEN /\ cReq' = [cReq EXCEPT ![r] = [@ EXCEPT !.pc = "saving"]]
          /\ UNCHANGED <<cBucket, cNextId>>
     ELSE /\ cBucket' = Stored(cBucket, cNextId, MergedFile(cReq[r].bufs))
          /\ cNextId' = cNextId + 1
          /\ cReq' = [cReq EXCEPT ![r] =
               [@ EXCEPT !.pc = "deleting", !.idx = 0,
                         !.doc = [@ EXCEPT !.audioUrl = cNextId],
                         !.mod = @ \cup {"audioUrl"}]]
  /\ UNCHANGED <<cNow, cConv, cRecord, cLog, notCallVars>>

\* one round of deleteTemporaryAudioSegments: the segment is deleted, or the
\* delete rejects because it is gone
EndDeleteSegment(r) ==
  /\ cReq[r].pc = "deleting"
  /\ cReq[r].idx < Len(cReq[r].ids)
  /\ cBucket' = Without(cBucket, {cReq[r].ids[cReq[r].idx + 1]})
  /\ cReq' = [cReq EXCEPT ![r] =
       [@ EXCEPT !.idx = @ + 1,
                 !.pc = IF cReq[r].idx + 1 = Len(cReq[r].ids) THEN "saving" ELSE "deleting"]]
  /\ UNCHANGED <<cNow, cConv, cRecord, cLog, cNextId, notCallVars>>

\* what save() stores: the assigned paths over the stored document, and the
\* version counted up when the message list was replaced
Saved(rec, doc, mod) ==
  [f \in DOMAIN rec |->
     IF f = "v" THEN (IF "messages" \in mod THEN rec.v + 1 ELSE rec.v)
     ELSE IF f \in mod THEN doc[f] ELSE rec[f]]

\* callRecord.save() settles.  It rejects on a database error, and on a
\* version conflict: an update that replaces the message list only matches
\* the stored document while its version is the loaded one
RecordSaved(r, ok) ==
  /\ cReq[r].pc = "saving"
  /\ IF ok /\ ("messages" \in cReq[r].mod => cRecord.v = cReq[r].doc.v)
     THEN /\ cRecord' = Saved(cRecord, cReq[r].doc, cReq[r].mod)
          /\ cLog' = Append(cLog, [r |-> r, saw |-> cReq[r].saw, before |-> cRecord,
                                   after |-> Saved(cRecord, cReq[r].doc, cReq[r].mod)])
          /\ cReq' = [cReq EXCEPT ![r] = [@ EXCEPT !.pc = "done", !.status = 200]]
     ELSE /\ cReq' = [cReq EXCEPT ![r] = [@ EXCEPT !.pc = "done", !.status = 500]]
          /\ UNCHANGED <<cRecord, cLog>>
  /\ UNCHANGED <<cNow, cConv, cBucket, cNextId, notCallVars>>

CallTick ==
  /\ cNow < 1000 + MaxCallTicks
  /\ cNow' = cNow + 1
  /\ UNCHANGED <<cConv, cRecord, cBucket, cReq, cLog, cNextId, notCallVars>>

NextCall ==
  \/ \E n \in 1..MaxEarlierTurns : EarlierTurns(n)
  \/ \E r \in Requests, kind \in {"chat", "chatStream"} : TurnPersisted(r, kind)
  \/ \E r \in Requests, endCall \in BOOLEAN : TurnFound(r, endCall)
  \/ \E r \in Requests : EndRequested(r)
  \/ \E r \in Requests : EndFound(r)
  \/ \E r \in Requests : EndDownload(r)
  \/ \E r \in Requests, ok \in BOOLEAN : EndMergeStored(r, ok)
  \/ \E r \in Requests : EndDeleteSegment(r)
  \/ \E r \in Requests, ok \in BOOLEAN : RecordSaved(r, ok)
  \/ CallTick

------------------------------------------------------------------------------
(* workerSpawner: the worker processes of the rooms *)

MaxWorkers == 3

Rooms == {"roomA", "roomB"}

InitWorkers ==
  /\ activeWorkers = [room \in Rooms |-> Null]
  /\ workers = <<>>
  /\ stopping = {}

notWorkerVars ==
  <<turnVars, tokVars, mergeVars, endVars, draftVars, langVars, sweepVars, pickVars, callVars>>

\* spawnWorker finds an entry whose process has been sent no signal
AlreadyRunning(room) ==
  /\ activeWorkers[room] # Null
  /\ ~workers[activeWorkers[room]].killed

\* spawnWorker(roomName): an entry whose process was sent no signal is
\* returned; else a stale entry is dropped, a process is spawned and recorded.
\* A spawn that fails emits error, whose handler deletes the entry of the room
SpawnWorker(room, started) ==
  /\ Len(workers) < MaxWorkers
  /\ IF AlreadyRunning(room)
     THEN UNCHANGED <<workers, activeWorkers>>
     ELSE /\ workers' = Append(workers, [room |-> room, running |-> started,
                                         killed |-> FALSE])
          /\ activeWorkers' = [activeWorkers EXCEPT ![room] =
                                 IF started THEN Len(workers) + 1 ELSE Null]
  /\ UNCHANGED <<stopping, notWorkerVars>>

\* stopWorker(roomName) up to its wait: kill('SIGTERM') of the recorded
\* process, which sets killed when the signal was sent
StopWorker(room) ==
  /\ activeWorkers[room] # Null
  /\ \E w \in {activeWorkers[room]} :
       /\ [room |-> room, worker |-> w] \notin stopping
       /\ workers' = [workers EXCEPT ![w] = [@ EXCEPT !.killed = @ \/ workers[w].running]]
       /\ stopping' = stopping \cup {[room |-> room, worker |-> w]}
  /\ UNCHANGED <<activeWorkers, notWorkerVars>>

\* stopWorker after its wait: SIGKILL to a process not marked killed, and
\* the entry of the room is deleted
StopWorkerResumes ==
  /\ \E s \in stopping :
       /\ workers' = [workers EXCEPT ![s.worker] =
                        IF ~@.killed /\ @.running
                        THEN [@ EXCEPT !.killed = TRUE, !.running = FALSE]
                        ELSE @]
       /\ activeWorkers' = [activeWorkers EXCEPT ![s.room] = Null]
       /\ stopping' = stopping \ {s}
  /\ UNCHANGED notWorkerVars

\* a process ends, of itself or on a signal; its exit handler deletes the
\* entry of its room
WorkerExits(w) ==
  /\ w \in 1..Len(workers)
  /\ workers[w].running
  /\ workers' = [workers EXCEPT ![w] = [@ EXCEPT !.running = FALSE]]
  /\ activeWorkers' = [activeWorkers EXCEPT ![workers[w].room] = Null]
  /\ UNCHANGED <<stopping, notWorkerVars>>

NextWorker ==
  \/ \E room \in Rooms, started \in BOOLEAN : SpawnWorker(room, started)
  \/ \E room \in Rooms : StopWorker(room)
  \/ StopWorkerResumes
  \/ \E w \in 1..MaxWorkers : WorkerExits(w)

------------------------------------------------------------------------------
(* Specifications *)

vars == <<turnVars, tokVars, mergeVars, endVars, draftVars, langVars, sweepVars, pickVars, callVars, workerVars>>

Init == InitTurn /\ InitToken /\ InitMerge /\ InitEnd /\ InitDraft /\ InitLang /\ InitSweep /\ InitPick
        /\ InitCall /\ InitWorkers

\* one chatStream turn
Spec == Init /\ [][NextTurn]_vars

\* the delivery token store
SpecToken == Init /\ [][NextToken]_vars

\* one merge
SpecMerge == Init /\ [][NextMerge]_vars

\* a conversation is ended
SpecEnd == Init /\ [][NextEnd]_vars

SpecDraft == Init /\ [][NextDraft]_vars

SpecLang == Init /\ [][NextLang]_vars

SpecSweep == Init /\ [][NextSweep]_vars

\* the chunker on a growing buffer
SpecPick == Init /\ [][NextPick]_vars

\* the call record under overlapping requests
SpecCall == Init /\ [][NextCall]_vars

\* the worker processes of the rooms
SpecWorker == Init /\ [][NextWorker]_vars

------------------------------------------------------------------------------
(* Properties *)

RECURSIVE Flat(_)
Flat(chunks) == IF chunks = <<>> THEN <<>> ELSE Head(chunks) \o Flat(Tail(chunks))

OfType(log, types) == SelectSeq(log, LAMBDA e : e.type \in types)

Count(type) == Len(OfType(events, {type}))

\* the segment events of the turn, in the order they were written
TtsEvents == OfType(events, {"tts_audio", "tts_error"})

\* C1: the tts_audio and tts_error events are written in the order their
\* chunks were enqueued (pos: the chunk's rank among the chunks taken from the
\* queue), and the index values of the tts_audio events strictly increase.
C1_SegmentEventsInEnqueueOrder ==
  /\ \A i, j \in 1..Len(TtsEvents) : i < j => TtsEvents[i].pos < TtsEvents[j].pos
  /\ LET ready == OfType(events, {"tts_audio"})
     IN  \A i, j \in 1..Len(ready) : i < j => ready[i].index < ready[j].index

\* C1 witness: a failed segment followed by a ready one
C1_Witness ==
  \E i, j \in 1..Len(TtsEvents) :
    i < j /\ TtsEvents[i].type = "tts_error" /\ TtsEvents[j].type = "tts_audio"

\* C2 as stated: once generation has returned, the chunks enqueued for
\* synthesis, concatenated in order, are the full generated text.
C2_ChunksReproduceText == llmDoneAt # Null => Flat(enqueued) = fullText

\* C2 amended: the enqueued chunks followed by what is left in pendingSpeak
\* are the generated text at every moment, and after generation has returned
\* what is left is empty or whitespace only (it is never enqueued).
C2_ChunksAndRemainderReproduceText ==
  /\ Flat(enqueued) \o pendingSpeak = fullText
  /\ llmDoneAt # Null => Trim(pendingSpeak) = <<>>

\* C2 witness: generation has returned, a chunk was enqueued and a
\* whitespace remainder is left that was never enqueued
C2_Witness ==
  /\ llmDoneAt # Null
  /\ enqueued # <<>>
  /\ pendingSpeak # <<>>

\* C3: for every minted token at most one fetch obtains the stored
\* parameters and starts synthesis, with the payload the token was created
\* with; every fetch of the token after that one is answered 404.
Fetches(t, result) ==
  {i \in 1..Len(tokLog) : tokLog[i].token = t /\ tokLog[i].result = result}

C3_TokenConsumedOnce ==
  \A t \in 1..Len(minted) :
    /\ Cardinality(Fetches(t, "synthesis")) <= 1
    /\ \A i \in Fetches(t, "synthesis") : tokLog[i].text = minted[t]
    /\ \A i \in Fetches(t, "synthesis"), j \in 1..Len(tokLog) :
         (i < j /\ tokLog[j].token = t) => tokLog[j].result \in {"404", "piped", "500", "stream_error"}

\* C3 witness: a second fetch of a token is answered 404 while the first
\* fetch is still waiting for its stream
C3_Witness ==
  \E t \in 1..Len(minted) :
    /\ \E i \in Fetches(t, "synthesis"), j \in Fetches(t, "404") : i < j
    /\ \E r \in tokReqs : r.token = t

\* C4 as stated, its safety part: in a turn that is not cancelled the drain
\* goes on after a failed synthesis, so chunks never sit in the queue with no
\* drain running.
C4_DrainContinuesAfterFailure == (~aborted /\ ttsQueue # <<>>) => ttsProcessing

\* the retry hint of a provider error, in ms
HintMs(err) ==
  IF err.retryAfterMsHdr \notin {Null, 0} THEN err.retryAfterMsHdr
  ELSE IF err.retryAfterHdr \notin {Null, 0} THEN err.retryAfterHdr * 1000
  ELSE Null

C6_FarewellIsSpoken ==
  \A i \in 1..Len(events) :
    (events[i].type = "final" /\ events[i].flag /\ events[i].text = FallbackGoodbye)
      => Count("tts_audio") = 1

\* positions of audioFileIds whose download succeeded, in order
Kept == SelectSeq([i \in 1..Len(audioFileIds) |-> i], LAMBDA i : i \notin skipped)

\* C7: the merged file holds the bytes of the downloaded segments,
\* concatenated in the order of the id list, each once.
C7_MergedIsConcatenationInOrder ==
  mpc = "done" =>
    bucket[mergedFileId].bytes =
      Flat([k \in 1..Len(Kept) |-> SegmentBytes(audioFileIds[Kept[k]])])

\* C7 witness: a merge of three segments whose middle one could not be read
C7_Witness ==
  /\ mpc = "done"
  /\ Len(audioFileIds) = 3
  /\ skipped = {2}

\* the generation call of the turn threw
GenFailed == pc = "ended" /\ llmDoneAt = Null /\ conversation # <<>>

\* nothing of the turn is stored
NothingSaved ==
  /\ \A i \in 1..Len(dbConversation.messages) : dbConversation.messages[i].role = "system"
  /\ dbConversation.audioSegments = OwnedSegments
  /\ dbCallRecord.messages = <<>>
  /\ dbCallRecord.latencyTurns = <<>>
  /\ dbCallRecord.cost = 0
  /\ dbCallRecord.status = "active"

\* C8: after the generation call has failed in a turn that is not cancelled,
\* exactly one rate_limited or error event has been written, no final event,
\* and the stored conversation and call record are as before the turn.
C8_FailureEmitsOneEventSavesNothing ==
  (GenFailed /\ ~aborted) =>
    /\ Count("rate_limited") + Count("error") = 1
    /\ Count("final") = 0
    /\ NothingSaved

\* C8 witness: generation failed after a segment had been synthesized
C8_Witness ==
  /\ GenFailed
  /\ ~aborted
  /\ audioSegmentIds # <<>>
  /\ Count("error") = 1

\* C9 as stated, for a close event that fires after generation has returned
\* and before persistence begins (during the wait for the synthesis queue):
\* neither the conversation nor the call record is saved.
C9_CancelSkipsPersistence == abortedAt = "awaitIdle" => NothingSaved

\* C10 as stated: a synthesis result that arrives after the close event
\* fired writes no tts_audio event and adds no id to audioSegmentIds.
C10_LateResultDiscarded ==
  [][aborted => /\ audioSegmentIds' = audioSegmentIds
                /\ OfType(events', {"tts_audio"}) = OfType(events, {"tts_audio"})]_vars

\* C11 as stated: a segment that is gone from the store was downloaded by
\* the merge and is part of a merged file that was stored.
C11_DeletedOnlyIfMerged ==
  \A id \in SegmentIds :
    id \notin DOMAIN bucket =>
      /\ mergedFileId # Null
      /\ \E k \in 1..Len(Kept) : audioFileIds[Kept[k]] = id

QueueQuiet == ttsQueue = <<>> /\ ~ttsProcessing /\ inflight = {}

\* C13: the promise of ttsIdle() is resolved only while the queue is empty
\* with no drain active and no call in flight; it is resolved at once when
\* ttsIdle() is called in such a state; and the conversation is saved only in
\* such a state.
C13_IdleMeansQuiet ==
  /\ [](idleResolved => QueueQuiet)
  /\ [][(pc = "generating" /\ pc' = "awaitIdle" /\ QueueQuiet') => idleResolved']_vars
  /\ [][dbConversation' # dbConversation => QueueQuiet]_vars

\* C13 witness: the conversation was saved after the wait for a drain that
\* produced a segment
C13_Witness ==
  /\ pc = "findRecord"
  /\ Len(dbConversation.audioSegments) > Len(OwnedSegments)
  /\ ~aborted

\* the locators of the turn's segment-ready events, in the order written
SegmentLocators == [i \in 1..Len(OfType(events, {"tts_audio"})) |-> OfType(events, {"tts_audio"})[i].id]

\* the locators of the segments the turn appended to the stored conversation
AppendedLocators ==
  [i \in 1..(Len(dbConversation.audioSegments) - Len(OwnedSegments)) |->
     ToAudioUrl(dbConversation.audioSegments[Len(OwnedSegments) + i])]

\* the turn ran to its final event
TurnCompleted == Count("final") = 1

\* C14 as stated: on a completed turn the segments appended to the stored
\* conversation are exactly the locators of the turn's segment-ready events,
\* in order, after the segments the conversation already owned
C14_SegmentsAreEventLocators ==
  TurnCompleted =>
    /\ SubSeq(dbConversation.audioSegments, 1, Len(OwnedSegments)) = OwnedSegments
    /\ AppendedLocators = SegmentLocators

\* a locator that names a file of the audio bucket
IsBucketLocator(loc) == loc[1] = "/api/audio/"

\* C14 amended: on a completed turn the segments appended to the stored
\* conversation are exactly the bucket locators among the turn's segment-ready
\* events, in order, after the segments the conversation already owned; a
\* segment that fell back to a local file is announced but not appended
C14_SegmentsAreBucketLocators ==
  TurnCompleted =>
    /\ SubSeq(dbConversation.audioSegments, 1, Len(OwnedSegments)) = OwnedSegments
    /\ AppendedLocators = SelectSeq(SegmentLocators, IsBucketLocator)

\* C14 witness: a completed turn that announced a bucket segment and a local one
C14_Witness ==
  /\ TurnCompleted
  /\ \E i, j \in 1..Len(SegmentLocators) :
       IsBucketLocator(SegmentLocators[i]) /\ ~IsBucketLocator(SegmentLocators[j])

\* the event types prefetchDraft may write ("end" marks res.end())
DraftEventTypes == {"assistant_delta", "latency", "done", "rate_limited", "error", "end"}

\* C15: no step of prefetchDraft, whatever its input and outcome, changes the
\* stored conversation or call record, the audio bucket, or starts a synthesis
\* call; it writes only text-delta, latency, done, rate_limited and error events
C15_DraftLeavesStateAlone ==
  /\ [][draftVars' # draftVars
          => UNCHANGED <<dbConversation, dbCallRecord, conversation, callRecord, bucket,
                         inflight, enqueued, ttsQueue, tokLog>>]_vars
  /\ [](\A i \in 1..Len(dEvents) : dEvents[i].type \in DraftEventTypes)

\* C15 witness: a draft on a conversation with stored turns ran to its done
\* event; the language instruction it added is in its own messages only
C15_Witness ==
  /\ dpc = "ended"
  /\ \E i \in 1..Len(dEvents) : dEvents[i].type = "done"
  /\ \E i \in 1..Len(dEvents) : dEvents[i].type = "assistant_delta"
  /\ Len(dbConversation.messages) > 1
  /\ dMessages[1].content # dbConversation.messages[1].content

\* the fetches (entries of the log made by streamTtsByToken itself) of minted tokens
Arrivals == {i \in 1..Len(tokLog) : /\ tokLog[i].result \in {"404", "synthesis"}
                                    /\ tokLog[i].token \in 1..Len(minted)}

\* C16: a fetch of a token at or after its expiry, a fixed time-to-live after
\* the token was minted, is answered 404 and starts no synthesis, consumed
\* before or not; the expiry of a stored token is the one set at mint time
C16_ExpiredFetchIs404 ==
  /\ \A i \in Arrivals :
       tokLog[i].at >= mintedAt[tokLog[i].token] + TtlMs => tokLog[i].result = "404"
  /\ \A k \in DOMAIN ttsTokenStore : ttsTokenStore[k].expiresAt = mintedAt[k] + TtlMs

\* C16 witness: a token that was never consumed is fetched at the instant of
\* its expiry, while it is still in the store
C16_Witness ==
  \E i \in Arrivals :
    /\ tokLog[i].at = mintedAt[tokLog[i].token] + TtlMs
    /\ Fetches(tokLog[i].token, "synthesis") = {}
    /\ tokLog[i].token \in DOMAIN ttsTokenStore

\* the fetches of token t that failed: synthesis threw or its stream errored
FailedFetches(t) == Fetches(t, "500") \cup Fetches(t, "stream_error")

\* C17: the mapping of a token is removed before its synthesis starts, so it
\* is gone while synthesis is in flight and after it succeeded, threw or its
\* stream errored; a fetch of the token after a failed fetch is answered 404
C17_MappingGoneBeforeSynthesis ==
  /\ \A t \in 1..Len(minted) : Fetches(t, "synthesis") # {} => t \notin DOMAIN ttsTokenStore
  /\ \A t \in 1..Len(minted) :
       \A i \in FailedFetches(t) :
         \A j \in Arrivals : (j > i /\ tokLog[j].token = t) => tokLog[j].result = "404"

\* C17 witness: a token is fetched again after its synthesis threw
C17_Witness ==
  \E t \in 1..Len(minted) :
    \E i \in Fetches(t, "500") : \E j \in Fetches(t, "404") : j > i

\* the pending buffer of a delta step, once the delta has been added to it
Buffered == pendingSpeak \o SubSeq(fullText', Len(fullText) + 1, Len(fullText'))

\* a step of the onChunk callback
DeltaStep == nDeltas' = nDeltas + 1

\* C18 as stated: a delta that leaves the pending buffer with a trimmed length
\* below the minimum chunk length enqueues no chunk
C18_ShortBufferNotEnqueued ==
  [][(DeltaStep /\ Len(Trim(Buffered)) < MinLen) => enqueued' = enqueued]_vars

\* C18 amended: a delta that leaves the pending buffer with a trimmed length
\* below the minimum chunk length enqueues no chunk, except the forced early
\* chunk: nothing was queued in the turn yet, the time budget since the first
\* token has passed and the trimmed length has reached the forced minimum;
\* then exactly one chunk, cut from the front of the buffer, is enqueued
C18_ShortBufferOnlyForced ==
  [][(DeltaStep /\ Len(Trim(Buffered)) < MinLen)
       => \/ enqueued' = enqueued
          \/ /\ firstTtsChunkQueuedAt = Null
             /\ now - firstTokenAt' >= ForceBudgetMs
             /\ Len(Trim(Buffered)) >= ForceMinChars
             /\ enqueued' = Append(enqueued, Slice(Buffered, 0, ForcedEnd(Buffered)))]_vars

\* C18 witness: during generation the first chunk enqueued is shorter, trimmed,
\* than the minimum chunk length
C18_Witness ==
  /\ pc = "generating"
  /\ enqueued # <<>>
  /\ Len(Trim(enqueued[1])) < MinLen

\* C19 as stated: endConversation, called by its owner on a stored conversation
\* that owns audio segments, starts the merge of the segments, also when the
\* call record was already ended by end_call in an earlier turn
C19_EndedConversationIsMerged ==
  [][(EndStart(TRUE, TRUE) /\ dbConversation.audioSegments # <<>>) => epc' = "merging"]_vars

\* the stored first message
FirstMessage == dbConversation.messages[1]

\* C20: over any sequence of chat and chatStream turns of a conversation the
\* stored system message is the prompt the conversation was started with,
\* followed by at most one language instruction; once the stored first message
\* holds the directive no turn changes it
C20_DirectiveAppendedOnce ==
  /\ [](lLog # <<>> =>
          /\ FirstMessage.role = "system"
          /\ \/ FirstMessage.content = lLog[1].prompt
             \/ \E l \in Languages :
                  FirstMessage.content = lLog[1].prompt \o LanguageInstruction(l))
  /\ [][Includes(FirstMessage.content, LanguageDirective) => FirstMessage' = FirstMessage]_vars

\* C20 witness: the instruction was appended in one turn and a later turn, in
\* another language, was stored as well
C20_Witness ==
  /\ Len(lLog) >= 3
  /\ ~Includes(lLog[1].prompt, LanguageDirective)
  /\ Includes(FirstMessage.content, LanguageDirective)
  /\ lLog[2].ok /\ lLog[3].ok
  /\ lLog[2].language # lLog[3].language
  /\ Len(dbConversation.messages) = 5

\* C21 as stated: while generation runs, the system message of the list sent
\* to the generation provider holds the language directive
C21_DirectiveSentToProvider ==
  pc = "generating" => Includes(messagesForOpenAI[1].content, LanguageDirective)

\* the latency objects of the turn: the one of the latency event and the one
\* pushed to the stored call record
LatencyRecords ==
  {OfType(events, {"latency"})[i].text[1] : i \in 1..Len(OfType(events, {"latency"}))}
  \cup {dbCallRecord.latencyTurns[i] : i \in 1..Len(dbCallRecord.latencyTurns)}

\* the values of latency object l that are present
Present(l) ==
  {v \in {l.llmFirstTokenMs, l.llmTotalMs, l.ttsFirstAudioMs, l.ttsTotalMs, l.e2eFirstAudioMs} :
     v # Null}

\* C22: in the latency record of a completed turn a stage that never occurred
\* has a null field, every present value is non-negative, the first token is
\* not after the end of generation, the first audio is not after the last,
\* and e2eFirstAudioMs equals ttsFirstAudioMs
C22_LatencyRecordConsistent ==
  \A l \in LatencyRecords :
    /\ nDeltas = 0 => l.llmFirstTokenMs = Null
    /\ Count("tts_audio") = 0 => l.ttsFirstAudioMs = Null /\ l.ttsTotalMs = Null
    /\ \A v \in Present(l) : v >= 0
    /\ l.llmTotalMs # Null
    /\ l.llmFirstTokenMs # Null => l.llmFirstTokenMs <= l.llmTotalMs
    /\ l.ttsFirstAudioMs # Null => l.ttsTotalMs # Null /\ l.ttsFirstAudioMs <= l.ttsTotalMs
    /\ l.e2eFirstAudioMs = l.ttsFirstAudioMs

\* C22 witness: a completed turn stored a latency record with a first token
\* and with a last audio later than its first audio
C22_Witness ==
  /\ Count("done") = 1
  /\ \E l \in LatencyRecords :
       /\ l.llmFirstTokenMs # Null
       /\ l.ttsFirstAudioMs # Null
       /\ l.ttsTotalMs > l.ttsFirstAudioMs
  /\ Len(dbCallRecord.latencyTurns) = 1

\* the final event of the turn
FinalEvent == OfType(events, {"final"})[1]

\* the stored call record was ended by a triggered function
EndedByFunction == dbCallRecord.status = "ended" /\ dbCallRecord.endReason = "function_triggered"

\* C23: the turn marks the call for termination exactly when the provider
\* reported a tool call named end_call and the agent has an enabled end_call
\* function: the final event carries the mark and the call record the turn
\* found is ended with reason function_triggered; the text of such a turn is
\* enqueued at the end of generation and taken by the drain as in any turn
C23_EndCallIffReportedAndEnabled ==
  /\ [][\A calls \in ToolCalls, usage \in {0, 120} :
          GenDone(calls, usage)
            => /\ shouldEndCall' = (tools /\ \E i \in 1..Len(calls) : calls[i] = "end_call")
               /\ enqueued' = enqueued \o FinalFlush(pendingSpeak)]_vars
  /\ [](TurnCompleted =>
          /\ FinalEvent.flag = shouldEndCall
          /\ callRecord # <<>> => (EndedByFunction <=> shouldEndCall)
          /\ shifted = Len(enqueued))

\* C23 witness: a completed turn ended the call and its text was synthesized
C23_Witness ==
  /\ TurnCompleted
  /\ FinalEvent.flag
  /\ EndedByFunction
  /\ Count("tts_audio") > 0

\* the last sweep has run to its end
SweepFinished == spc = "idle" /\ sSweeps > 0

\* blobs still stored whose expiry had passed when the last sweep ran its query
LeftExpired == {id \in DOMAIN bucket : SweepMatches(bucket[id], sAt)}

\* what no sweep does: delete a blob whose expiry is absent or not yet passed,
\* or the merged full_conversation blob, which is stored without expiry
SweepSparesTheRest ==
  /\ \A d \in sDeleted : d.expiresAt # Null /\ d.expiresAt < d.at
  /\ mergedFileId # Null =>
       /\ MergedId \in DOMAIN bucket
       /\ bucket[MergedId].expiresAt = Null
       /\ bucket[MergedId].type = "full_conversation"

\* C24 as stated: a finished sweep has deleted every blob whose expiry had
\* passed, merged or not, and no sweep deletes a blob whose expiry is absent
\* or in the future, the merged blob among them
C24_SweepDeletesEveryExpired ==
  /\ SweepFinished => LeftExpired = {}
  /\ SweepSparesTheRest

\* C24 amended: a finished sweep has deleted every blob whose expiry had
\* passed, merged or not, except those whose delete was rejected, which stay
\* stored; no sweep deletes a blob whose expiry is absent or in the future,
\* the merged blob among them
C24_SweepDeletesExpiredUnlessRejected ==
  /\ SweepFinished => LeftExpired \subseteq sFailed
  /\ SweepSparesTheRest

\* C24 witness: a sweep finished after the segments of a merged conversation
\* had expired; it deleted a segment and the merged blob is still stored
C24_Witness ==
  /\ SweepFinished
  /\ sDeleted # {}
  /\ mergedFileId # Null
  /\ MergedId \in DOMAIN bucket

\* C25 as stated: every segment-ready and segment-failed event carries as its
\* index the zero-based enqueue position of its chunk
C25_IndexIsEnqueuePosition ==
  \A i \in 1..Len(TtsEvents) : TtsEvents[i].index = TtsEvents[i].pos - 1

\* the types of the events written, in order ("end" marks res.end())
EventTypes == [i \in 1..Len(events) |-> events[i].type]

\* C26: the event stream of a turn that completed without error or
\* cancellation ends with one latency, one final and one done event, in that
\* order, the only ones of their types, so every text-delta, segment-ready and
\* segment-failed event comes before the latency event
C26_StreamEndsLatencyFinalDone ==
  (Count("done") > 0 /\ ~aborted) =>
    /\ Len(events) >= 4
    /\ SubSeq(EventTypes, Len(events) - 3, Len(events)) = <<"latency", "final", "done", "end">>
    /\ \A i \in 1..(Len(events) - 4) :
         EventTypes[i] \in {"assistant_delta", "tts_audio", "tts_error"}

\* C26 witness: a completed turn with text-delta, segment-ready and
\* segment-failed events
C26_Witness ==
  /\ Count("done") = 1 /\ ~aborted
  /\ Count("assistant_delta") > 0 /\ Count("tts_audio") > 0 /\ Count("tts_error") > 0

\* the messages the turn has added to the stored conversation
TurnMessages == SubSeq(dbConversation.messages, 2, Len(dbConversation.messages))

\* C27: a completed turn has persisted, after the user message, exactly one
\* assistant message, and its content is not empty: the trimmed generated
\* text, or one of the two fallback phrases when that text trims to nothing
C27_OneNonEmptyAssistantMessage ==
  TurnCompleted =>
    /\ Len(TurnMessages) = 2
    /\ TurnMessages[1].role = "user"
    /\ TurnMessages[2].role = "assistant"
    /\ TurnMessages[2].content # <<>>
    /\ Trim(TurnMessages[2].content) = TurnMessages[2].content
    /\ IF Trim(fullText) # <<>>
       THEN TurnMessages[2].content = Trim(fullText)
       ELSE TurnMessages[2].content \in {FallbackGoodbye, FallbackRepeat}

\* C27 witness: a completed turn whose generated text was only whitespace
\* persisted a fallback phrase
C27_Witness ==
  /\ TurnCompleted
  /\ fullText # <<>>
  /\ TurnMessages[2].content = FallbackRepeat

\* C28 as stated, as the state it rules out: while an uncancelled turn waits
\* for the queue to be idle there is a synthesis call in flight, whose return
\* or throw lets the drain go on and resolve the wait
C28_IdleWaitCanResolve ==
  (pc = "awaitIdle" /\ ~aborted /\ ~idleResolved) => inflight # {}

\* C29: a call of _pickTtsChunk returns no chunk and its input as the rest, or
\* a chunk that is not empty and a rest that together are the input, the rest
\* being shorter than the input; so the chunks taken from a growing buffer,
\* followed by the buffer, are the text received, and none of them is empty
C29_ChunkAndRestPartitionInput ==
  /\ IF pkResult.has
     THEN /\ pkResult.chunk # <<>>
          /\ pkResult.chunk \o pkResult.rest = pkInput
          /\ Len(pkResult.rest) < Len(pkInput)
     ELSE pkResult.rest = pkInput
  /\ Flat(pkChunks) \o pkPending = pkText
  /\ \A i \in 1..Len(pkChunks) : pkChunks[i] # <<>>

\* two chunks were taken, one at a boundary and one by the forced cut
C29_Witness ==
  /\ Len(pkChunks) = 2
  /\ \E i \in 1..2 : Len(pkChunks[i]) = MaxLen /\ pkChunks[i][MaxLen] = "a"
  /\ \E i \in 1..2 : pkChunks[i][Len(pkChunks[i])] = " "

\* end indices of the sentence boundaries of a text: a . ! or ? with all the
\* whitespace that follows it, or a run of newlines that no such whitespace holds
BoundaryEnds(text) ==
  {e \in 1..Len(text) :
     /\ e = Len(text) \/ text[e + 1] \notin White
     /\ \E i \in 1..(e - 1) :
          text[i] \in Punct /\ \A k \in (i + 1)..e : text[k] \in White}
  \cup
  {e \in 1..Len(text) :
     /\ text[e] = "\n"
     /\ e = Len(text) \/ text[e + 1] # "\n"
     /\ ~\E i \in 1..(e - 1) :
            text[i] \in Punct /\ \A k \in (i + 1)..e : text[k] \in White}

\* C30: when the trimmed input has at least MinLen characters and a sentence
\* boundary ends at or beyond MinLen, the call cuts at the end of the first
\* such boundary, whatever boundaries end before MinLen
C30_CutsAtFirstBoundaryBeyondMin ==
  \A ends \in {{e \in BoundaryEnds(pkInput) : e >= MinLen}} :
    (Len(Trim(pkInput)) >= MinLen /\ ends # {}) =>
      /\ pkResult.has
      /\ pkResult.chunk = Slice(pkInput, 0, MinOf(ends))
      /\ pkResult.rest = Slice(pkInput, MinOf(ends), Len(pkInput))

\* a call cut at a boundary after passing one that ends before MinLen
C30_Witness ==
  /\ Len(Trim(pkInput)) >= MinLen
  /\ \E e \in BoundaryEnds(pkInput) : e < MinLen
  /\ \E e \in BoundaryEnds(pkInput) : e >= MinLen /\ Len(pkResult.chunk) = e
  /\ pkResult.has

\* the last call got a buffer that has reached MaxLen, has MinLen characters
\* when trimmed, and holds no sentence boundary that ends at or beyond MinLen
ForcedCase ==
  /\ Len(pkInput) >= MaxLen
  /\ Len(Trim(pkInput)) >= MinLen
  /\ {e \in BoundaryEnds(pkInput) : e >= MinLen} = {}

C32_ChunkWithinUpperBound ==
  pkResult.has => Len(pkResult.chunk) <= MaxLen

\* C33: the step that ends generation enqueues the remainder as it is when it
\* holds a character that is not whitespace, whatever its length, and a drain
\* is then running with the remainder queued or handed to synthesis; a blank
\* remainder enqueues nothing; and nothing is enqueued after that step
C33_RemainderFlushedOnce ==
  [][/\ (pc = "generating" /\ pc' = "awaitIdle") =>
          IF Trim(pendingSpeak) # <<>>
          THEN /\ enqueued' = Append(enqueued, pendingSpeak)
               /\ pendingSpeak' = <<>>
               /\ ~aborted =>
                    /\ ttsProcessing'
                    /\ \/ /\ ttsQueue' # <<>>
                          /\ ttsQueue'[Len(ttsQueue')] = pendingSpeak
                       \/ \E c \in inflight' :
                            c.pos = Len(enqueued') /\ c.text = Trim(pendingSpeak)
          ELSE enqueued' = enqueued /\ ttsQueue' = ttsQueue
     /\ pc # "generating" => enqueued' = enqueued]_vars

\* the only chunk of a turn is a flushed remainder shorter than MinLen, in synthesis
C33_Witness ==
  /\ pc = "awaitIdle" /\ ~aborted
  /\ firstTtsChunkQueuedAt = Null
  /\ Len(enqueued) = 1 /\ Len(enqueued[1]) < MinLen
  /\ \E c \in inflight : c.pos = 1

\* a delta step that enqueues more than the extraction loop pulls from the
\* buffer: the forced early chunk was taken
ForcedStep ==
  /\ DeltaStep
  /\ Len(enqueued') > Len(enqueued) + Len(PullChunks(Buffered, <<>>).chunks)

C35_NothingAfterTerminalEvent ==
  [][(pc = "ended" /\ Count("end") = 1)
       => /\ events' = events
          /\ inflight' \subseteq inflight]_vars

\* C36 as stated: a write of the stored call record made once its status is
\* ended changes nothing of it: the status stays ended, and its messages,
\* cost, latency turns, end time and end reason are kept
C36_EndedRecordNeverChanges ==
  \A i \in 1..Len(cLog) :
    cLog[i].before.status = "ended" =>
      /\ cLog[i].after.status = "ended"
      /\ cLog[i].after.messages = cLog[i].before.messages
      /\ cLog[i].after.cost = cLog[i].before.cost
      /\ cLog[i].after.turns = cLog[i].before.turns
      /\ cLog[i].after.endTime = cLog[i].before.endTime
      /\ cLog[i].after.endReason = cLog[i].before.endReason

\* the merged files in the audio store
MergedFiles == {id \in DOMAIN cBucket : cBucket[id].type = "full_conversation"}

\* C37 as stated: when two overlapping endConversation requests are through,
\* the audio store holds at most one merged file, and the audioUrl of the
\* record names a file that holds every segment of the conversation
C37_OneMergedFileOfEverySegment ==
  (\A r \in Requests : cReq[r].kind = "end" /\ cReq[r].pc = "done") =>
    /\ Cardinality(MergedFiles) <= 1
    /\ cRecord.audioUrl # Null =>
         cBucket[cRecord.audioUrl].segs = cConv.audioSegments

\* the processes of a room that are running
Running(room) == {w \in 1..Len(workers) : workers[w].room = room /\ workers[w].running}

\* C38 as stated: a room has at most one running worker process, and a
\* running worker is the one recorded in activeWorkers for its room
C38_OneRecordedWorkerPerRoom ==
  \A room \in Rooms :
    /\ Cardinality(Running(room)) <= 1
    /\ \A w \in Running(room) : activeWorkers[room] = w

====
